---- MODULE Spec2Model ----
(***************************************************************************)
(* The decision-and-execution loop of the Proofwell treasury agent:        *)
(* deterministicDecisions, llmDecision and runDecisionCycle of the         *)
(* decision engine, the SQLite ledger they write (state.ts), the stake     *)
(* registry reader (proofwell.ts), the P&L endpoint and the paid          *)
(* attestation endpoint (server.ts).                                       *)
(*                                                                         *)
(* Units.  Raw token amounts are bigint micro-USDC (6 decimals), as in the *)
(* code.  Ledger amounts (the REAL columns amount_usdc) are kept as exact  *)
(* integers counting 1e-7 USDC, so that amount * 0.4 and a model reply of  *)
(* less than one micro-USDC are both representable; floating-point         *)
(* rounding of the REAL columns is not modelled.  Native balances are in   *)
(* gwei instead of wei.  Times are milliseconds since the start of the     *)
(* run (Date.now()).  A string is the sequence of its characters; a       *)
(* success rate is the exact fraction rateNum / rateDen.                   *)
(***************************************************************************)
EXTENDS Integers, Sequences, FiniteSets, TLC

\* ---------------------------------------------------------------- bounds
MaxCycles == 2          \* timer ticks that start a cycle body
MaxBodies == 2          \* cycle bodies the runtime could interleave
MaxPending == 1         \* submitted transactions not yet mined
MaxAccruals == 1        \* interest accruals of the lending pool
MaxFaults == 2          \* external calls (RPC, provider) that fail
MaxCodeBytes == 256     \* bytes of the longest builder code configured

\* ------------------------------------------------------ program constants
idleUsdcThreshold == 10000000        \* 10 USDC, raw
lowEthThreshold == 1000000           \* 0.001 ETH, in gwei
loopIntervalMs == 300000
llmCallIntervalMs == 3600000
SECONDS_PER_DAY == 300
RESOLUTION_BUFFER == 0
RAW_PER_USDC == 1000000              \* 1_000_000 raw units per USDC
FORFEIT_RATE_TENTHS == 4             \* forfeitRate 0.4, in tenths

LEDGER_PER_USDC == 10 * RAW_PER_USDC                 \* ledger units per USDC
LedgerPerRaw == LEDGER_PER_USDC \div RAW_PER_USDC     \* ledger units per raw unit
GAS_COST_ESTIMATE_USD == (5 * LEDGER_PER_USDC) \div 1000    \* 0.005
LLM_COST_USD == LEDGER_PER_USDC \div 10000                  \* 0.0001
YIELD_EPSILON == LEDGER_PER_USDC \div 1000000               \* 0.000001
YIELD_CAP == LEDGER_PER_USDC                                \* 1.0

NoValue == 0 - 1        \* getState(key) === undefined

\* ------------------------------------------------------------- environment
Users == {"u1", "u2"}
StakerOrder == <<"u1", "u2">>        \* KNOWN_STAKERS, in the order of the list
Bodies == 1 .. MaxBodies

\* The instants at which the clock is observed, chosen around the stake end
\* (3000 s) and the advisory interval (3600 s).
Times == {0, 10 * loopIntervalMs, 12 * loopIntervalMs}

GasPerTx == lowEthThreshold \div 2   \* native cost of one mined transaction
AccrualAmounts == {2}                \* interest the pool may credit, raw

VARIABLES
  now,            \* Date.now()
  openaiApiKey,   \* config.openaiApiKey is set
  configIdleUsdcThreshold,   \* config.idleUsdcThreshold (IDLE_USDC_THRESHOLD)
  configBuilderCode,         \* config.builderCode (BUILDER_CODE), as bytes
  nodeError,      \* chain: the error value a rejected submission throws
  liquid,         \* chain: balances.aaveUsdc of the agent
  aavePos,        \* chain: aUSDC balance of the agent (lending position)
  eth,            \* chain: native balance of the agent
  stakes,         \* chain: stakesV3[user][stakeId], stakeId = index - 1
  pending,        \* chain: transactions acknowledged but not yet mined
  allowance,      \* chain: allowance of the lending pool on the agent's USDC
  totalInterest,  \* ghost: interest the pool has credited so far, raw
  accruals,       \* ghost: number of accruals so far
  actions,        \* ledger table actions
  revenue,        \* ledger table revenue
  costs,          \* ledger table costs
  kv,             \* ledger table state (key/value)
  cyc,            \* one record per cycle body: position and locals
  cyclesStarted,  \* ghost: cycle bodies started so far
  tickSkipped,    \* the last step was a timer tick that found a body running
  execSeq,        \* ghost: number of Decision executions started so far
  providerLog,    \* ghost: provider calls made, in order
  faults,         \* ghost: external calls that have failed so far
  pnl,            \* the response of GET /api/pnl being sent, if any
  res,            \* the response of the attestation endpoint being sent, if any
  reply,          \* the response of another dashboard endpoint being sent, if any
  scan            \* what Rule 2 has just been given and whom it visited, if it ran

vars == <<now, openaiApiKey, configIdleUsdcThreshold, configBuilderCode, nodeError, liquid, aavePos, eth, stakes, pending, allowance,
          totalInterest, accruals, actions, revenue, costs, kv, cyc,
          cyclesStarted, tickSkipped, execSeq, providerLog, faults, pnl, res,
          reply, scan>>

chainVars == <<liquid, aavePos, eth, stakes, pending, allowance>>
ledgerVars == <<actions, revenue, costs, kv>>
envVars == <<now, openaiApiKey, configIdleUsdcThreshold, configBuilderCode, nodeError,
            totalInterest, accruals>>

\* ------------------------------------------------------------ ledger store
\* eid is a ghost column: the Decision execution that wrote the row (0: none).
\* A description is a sequence of characters; the texts that nothing reads back
\* and whose form nothing fixes are left empty.
logAction(tbl, type, description, amountUsdc, hasTx, success, eid) ==
  Append(tbl, [type |-> type, description |-> description,
               amount_usdc |-> amountUsdc, tx |-> hasTx,
               success |-> success, eid |-> eid])

\* a revenue write that keeps one row per source and overwrites it
logRevenueUpsert(tbl, source, amountUsdc, hasTx, eid) ==
  IF \E i \in 1 .. Len(tbl) : tbl[i].source = source
  THEN [i \in 1 .. Len(tbl) |->
          IF tbl[i].source = source
          THEN [source |-> source, amount_usdc |-> amountUsdc, tx |-> hasTx,
                eid |-> eid]
          ELSE tbl[i]]
  ELSE Append(tbl, [source |-> source, amount_usdc |-> amountUsdc, tx |-> hasTx,
                    eid |-> eid])

logRevenue(tbl, source, amountUsdc, hasTx, eid) ==
  Append(tbl, [source |-> source, amount_usdc |-> amountUsdc, tx |-> hasTx,
               eid |-> eid])

\* a cost write that replaces the row of the same category when there is one
logCostReplacing(tbl, category, amountUsdc, eid) ==
  IF \E i \in 1 .. Len(tbl) : tbl[i].category = category
  THEN [i \in 1 .. Len(tbl) |->
          IF tbl[i].category = category
          THEN [category |-> category, amount_usdc |-> amountUsdc, eid |-> eid]
          ELSE tbl[i]]
  ELSE Append(tbl, [category |-> category, amount_usdc |-> amountUsdc, eid |-> eid])

logCost(tbl, category, amountUsdc, eid) ==
  Append(tbl, [category |-> category, amount_usdc |-> amountUsdc, eid |-> eid])

getState(key) == kv[key]

setState(store, key, value) == [store EXCEPT ![key] = value]

RECURSIVE SumAmounts(_)
SumAmounts(rows) ==
  IF rows = <<>> THEN 0
  ELSE Head(rows).amount_usdc + SumAmounts(Tail(rows))

\* a revenue total recomputed from the successful ActionRecords
getTotalRevenueFromActions == SumAmounts(SelectSeq(actions, LAMBDA a : a.success))

\* SELECT COALESCE(SUM(amount_usdc), 0) FROM revenue / costs
getTotalRevenue == SumAmounts(revenue)
getTotalCosts == SumAmounts(costs)

\* Number(formatUnits(raw, 6)), in ledger units
formatUnits6(raw) == raw * LedgerPerRaw

\* ------------------------------------------------------- attribution suffix
\* Calldata is a hex string without its "0x": a sequence of hex digits 0..15.
\* A builder code is the sequence of its bytes.
byteHex(b) == <<b \div 16, b % 16>>

\* Buffer.from(code, "utf8").toString("hex")
hexOfBytes(bytes) ==
  [i \in 1 .. 2 * Len(bytes) |-> byteHex(bytes[(i + 1) \div 2])[2 - (i % 2)]]

\* n.toString(16)
RECURSIVE toHexString(_)
toHexString(n) ==
  IF n < 16 THEN <<n>> ELSE toHexString(n \div 16) \o <<n % 16>>

\* h.padStart(2, "0")
padStart2(h) == IF Len(h) >= 2 THEN h ELSE <<0>> \o h

MARKER_8021 ==
  [i \in 1 .. 32 |-> IF i = 29 THEN 8 ELSE IF i = 31 THEN 2 ELSE IF i = 32 THEN 1 ELSE 0]

\* a suffix without its schema byte
appendBuilderCodeNoSchema(calldata, code) ==
  LET codeHex == hexOfBytes(code)
      codeLength == padStart2(toHexString(Len(codeHex) \div 2))
  IN calldata \o codeLength \o codeHex \o MARKER_8021

appendBuilderCode(calldata, code) ==
  LET codeHex == hexOfBytes(code)
      codeLength == padStart2(toHexString(Len(codeHex) \div 2))
      schemaId == <<0, 0>>
      suffix == codeLength \o codeHex \o schemaId \o MARKER_8021
  IN calldata \o suffix

\* calldata.endsWith(MARKER_8021)
hasBuilderCode(calldata) ==
  /\ Len(calldata) >= Len(MARKER_8021)
  /\ SubSeq(calldata, Len(calldata) - Len(MARKER_8021) + 1, Len(calldata)) = MARKER_8021

\* config.builderCode by default: "proofwell"
builderCode == <<112, 114, 111, 111, 102, 119, 101, 108, 108>>

\* encodeFunctionData(...): the ABI encoding is the library's; a call is told
\* apart here by one byte per contract function
encodeFunctionData(kind) ==
  CASE kind = "supply" -> <<0, 1>>
    [] kind = "withdraw" -> <<0, 2>>
    [] kind = "resolve" -> <<0, 3>>
    [] OTHER -> <<0, 4>>

\* ------------------------------------------------------------ stake reader
getActiveStakes(user) ==
  SelectSeq(stakes[user], LAMBDA s : s.amount > 0 /\ ~s.claimed)

\* a test that already holds at the instant the stake ends
isResolvableAtBound(stake, nowMs) ==
  IF stake.claimed \/ stake.amount = 0 THEN FALSE
  ELSE nowMs \div 1000 >=
         stake.startTimestamp + stake.durationDays * SECONDS_PER_DAY + RESOLUTION_BUFFER

isResolvable(stake, nowMs) ==
  IF stake.claimed \/ stake.amount = 0 THEN FALSE
  ELSE LET nowSec == nowMs \div 1000
           stakeEnd == stake.startTimestamp + stake.durationDays * SECONDS_PER_DAY
       IN nowSec > stakeEnd + RESOLUTION_BUFFER

\* -------------------------------------------------------------- error text
\* A string is the sequence of its characters.
Min(a, b) == IF a < b THEN a ELSE b

\* s.slice(0, n)
slice(s, n) == SubSeq(s, 1, Min(n, Len(s)))

\* a string of n characters c
fill(c, n) == [i \in 1 .. n |-> c]

\* t occurs in s
partOf(t, s) ==
  t = <<>> \/ \E i \in 1 .. Len(s) - Len(t) + 1 : SubSeq(s, i, i + Len(t) - 1) = t

Whitespace == {" ", "\n", "\t"}

DETAILS == <<"D", "e", "t", "a", "i", "l", "s", ":">>
FAILED_PREFIX == <<"F", "A", "I", "L", "E", "D", ":", " ">>

NoMatch == <<"null">>

\* the capture of the match of /Details:\s*(.+)/ that starts at i, or NoMatch:
\* \s* takes as much white space as leaves one character other than a line
\* break for the group, which then runs to the end of the line
captureAt(msg, i) ==
  LET after == i + Len(DETAILS)
      starts == {j \in after .. Len(msg) :
                   /\ msg[j] # "\n"
                   /\ \A k \in after .. j - 1 : msg[k] \in Whitespace}
  IN IF i + Len(DETAILS) - 1 > Len(msg) \/ SubSeq(msg, i, i + Len(DETAILS) - 1) # DETAILS
        \/ starts = {}
     THEN NoMatch
     ELSE LET start == CHOOSE j \in starts : \A x \in starts : x <= j
              end == CHOOSE j \in start .. Len(msg) :
                       /\ \A k \in start .. j : msg[k] # "\n"
                       /\ j = Len(msg) \/ msg[j + 1] = "\n"
          IN SubSeq(msg, start, end)

\* msg.match(/Details:\s*(.+)/): the capture of the leftmost match
matchDetails(msg) ==
  LET hits == {i \in 1 .. Len(msg) : captureAt(msg, i) # NoMatch}
  IN IF hits = {} THEN NoMatch
     ELSE captureAt(msg, CHOOSE i \in hits : \A x \in hits : i <= x)

\* An error value: shortMessage ("" when the value has none), message (when
\* hasMessage) and String(e).
errorValue(shortMessage, hasMessage, message, string) ==
  [shortMessage |-> shortMessage, hasMessage |-> hasMessage, message |-> message,
   string |-> string]

\* the message of the older engine: the whole of e.message
sanitizeErrorWhole(e) == IF e.hasMessage THEN e.message ELSE e.string

sanitizeError(e) ==
  IF e.shortMessage # <<>> THEN slice(e.shortMessage, 120)
  ELSE LET msg == IF e.hasMessage THEN e.message ELSE e.string
           details == matchDetails(msg)
       IN IF details # NoMatch THEN slice(details, 120) ELSE slice(msg, 120)

\* `FAILED: ${sanitizeError(e)}`
failureDescription(e) == FAILED_PREFIX \o sanitizeError(e)

\* the error of a library call: a short summary and a verbose message
nonceTooLow ==
  errorValue(<<"n", "o", "n", "c", "e", " ", "t", "o", "o", " ", "l", "o", "w">>, TRUE,
             fill("m", 30) \o <<"\n">> \o DETAILS \o <<" ">> \o fill("d", 9)
               \o <<"\n">> \o fill("v", 5),
             fill("e", 7) \o fill("m", 30))

\* ------------------------------------------------------------------ texts
DecimalDigits == <<"0", "1", "2", "3", "4", "5", "6", "7", "8", "9">>

\* `${n}` of an integer
RECURSIVE toDecimalString(_)
toDecimalString(n) ==
  IF n < 0 THEN <<"-">> \o toDecimalString(0 - n)
  ELSE IF n < 10 THEN <<DecimalDigits[n + 1]>>
  ELSE toDecimalString(n \div 10) \o <<DecimalDigits[(n % 10) + 1]>>

\* the address of a staker: "0x" and 40 hexadecimal digits
addressOf(user) ==
  IF user = "u1" THEN <<"0", "x">> \o fill("a", 8) \o fill("1", 32)
  ELSE <<"0", "x">> \o fill("b", 8) \o fill("2", 32)

\* `Resolved expired stake for ${user}[${stake.stakeId}] - ${failedDays} failed days`
\* where the dash is the em dash U+2014, one character written "emdash" here
resolvedDescription(user, stakeId, failedDays) ==
  <<"R", "e", "s", "o", "l", "v", "e", "d", " ", "e", "x", "p", "i", "r", "e", "d", " ", "s", "t", "a", "k", "e", " ", "f", "o", "r", " ">>
    \o addressOf(user) \o <<"[">> \o toDecimalString(stakeId) \o <<"]", " ", "emdash", " ">>
    \o toDecimalString(failedDays) \o <<" ", "f", "a", "i", "l", "e", "d", " ", "d", "a", "y", "s">>

\* -------------------------------------------------------------- decisions
NoDecision ==
  [action |-> "none", amount |-> 0, user |-> "", stakeId |-> 0,
   failedDays |-> 0, treasuryRevenue |-> 0, amountUsdc |-> 0]

supplyDecision(depositAmount) ==
  [NoDecision EXCEPT !.action = "aave_supply", !.amount = depositAmount]

\* Rule 2 booking a forfeiture whatever the asset of the stake
resolveDecisionAnyAsset(stake) ==
  LET failedDays == stake.durationDays - stake.successfulDays
      forfeitRate == IF failedDays > 0 THEN FORFEIT_RATE_TENTHS ELSE 0
  IN [NoDecision EXCEPT !.action = "resolve_expired", !.user = stake.user,
                        !.stakeId = stake.stakeId, !.failedDays = failedDays,
                        !.treasuryRevenue =
                           stake.amount * ((forfeitRate * LedgerPerRaw) \div 10)]

resolveDecision(stake) ==
  LET failedDays == stake.durationDays - stake.successfulDays
      forfeitRate == IF failedDays > 0 THEN FORFEIT_RATE_TENTHS ELSE 0
      \* Number(formatUnits(amount, 6)) * forfeitRate, in ledger units
      treasuryRevenue == IF stake.isUSDC
                         THEN stake.amount * ((forfeitRate * LedgerPerRaw) \div 10)
                         ELSE 0
  IN [NoDecision EXCEPT !.action = "resolve_expired", !.user = stake.user,
                        !.stakeId = stake.stakeId, !.failedDays = failedDays,
                        !.treasuryRevenue = treasuryRevenue]

warningDecision == [NoDecision EXCEPT !.action = "low_eth_warning"]

\* a reply of the model provider; amount is amount_usdc in ledger units
NoResponse == [kind |-> "none", action |-> "", amountType |-> "", amount |-> 0]

idleBody ==
  [pc |-> "idle", phase |-> "rules", queue |-> <<>>, cur |-> NoDecision,
   nRules |-> 0, attempted |-> 0, failed |-> {}, llmRan |-> FALSE,
   llmNow |-> 0, resp |-> NoResponse, eid |-> 0, inflight |-> 0, unspent |-> 0]

\* Rule 0 with a window that is closed at the cap
yieldDetectedClosedCap(position, last) ==
  /\ last # NoValue
  /\ position > last
  /\ formatUnits6(position - last) > YIELD_EPSILON
  /\ formatUnits6(position - last) <= YIELD_CAP

\* Rule 0: is the position delta logged as lending yield?
yieldDetected(position, last) ==
  /\ last # NoValue
  /\ position > last
  /\ formatUnits6(position - last) > YIELD_EPSILON
  /\ formatUnits6(position - last) < YIELD_CAP

\* Rule 1 keeping the whole threshold liquid
rule1KeepsThreshold(balance, threshold) ==
  IF balance > threshold
  THEN <<supplyDecision(balance - threshold)>>
  ELSE <<>>

\* Rule 1 for a configured threshold
rule1T(balance, threshold) ==
  IF balance > threshold
  THEN <<supplyDecision(balance - threshold \div 2)>>
  ELSE <<>>

\* Rule 1: idle balance above the threshold
rule1(balance) == rule1T(balance, configIdleUsdcThreshold)

\* Rule 2 with the open-stake and resolvability filters replaced by the expiry
\* test alone
resolveCandidatesExpiredOnly(user, nowMs) ==
  SelectSeq(stakes[user],
            LAMBDA s : nowMs \div 1000 >
                         s.startTimestamp + s.durationDays * SECONDS_PER_DAY)

\* Rule 2, the body of the loop over one staker's open stakes
resolveCandidates(user, nowMs) ==
  SelectSeq(getActiveStakes(user), LAMBDA s : isResolvable(s, nowMs))

rule2ForUser(user, nowMs) ==
  LET cand == resolveCandidates(user, nowMs)
  IN [i \in 1 .. Len(cand) |-> resolveDecision(cand[i])]

\* Rule 2 with one try around the whole loop: the first read that fails ends it
RECURSIVE rule2StopsAtFailure(_, _, _)
rule2StopsAtFailure(stakers, failing, nowMs) ==
  IF stakers = <<>> \/ Head(stakers) \in failing THEN <<>>
  ELSE rule2ForUser(Head(stakers), nowMs)
       \o rule2StopsAtFailure(Tail(stakers), failing, nowMs)

\* Rule 2: stakers in enumeration order; a staker whose read fails is skipped
RECURSIVE rule2(_, _, _)
rule2(stakers, failing, nowMs) ==
  IF stakers = <<>> THEN <<>>
  ELSE (IF Head(stakers) \in failing THEN <<>>
        ELSE rule2ForUser(Head(stakers), nowMs))
       \o rule2(Tail(stakers), failing, nowMs)

\* Rule 3: low native balance
\* Rule 3 that already alerts at the threshold
rule3AtThreshold(balance) ==
  IF balance <= lowEthThreshold THEN <<warningDecision>> ELSE <<>>

rule3(balance) ==
  IF balance < lowEthThreshold THEN <<warningDecision>> ELSE <<>>

\* ------------------------------------------------------------------- Init
\* no attestation; also buildEmptyAttestation(wallet)
NoAttestation ==
  [isStaking |-> FALSE, totalStakes |-> 0, daysCompleted |-> 0, totalDays |-> 0,
   rateNum |-> 0, rateDen |-> 1, successRate |-> 0, disciplineScore |-> 0,
   isActive |-> FALSE]

\* no response of the attestation endpoint is being sent
NoRes == [sent |-> FALSE, wallet |-> <<>>, receipt |-> FALSE, status |-> 0, reads |-> 0,
          attestation |-> NoAttestation]

\* Rule 2 has not just run
NoScan == [done |-> FALSE, failed |-> FALSE, events |-> <<>>, failing |-> {},
           visited |-> <<>>]

\* no response of another dashboard endpoint is being sent
NoReply == [sent |-> FALSE, route |-> "", status |-> 0, body |-> [none |-> TRUE]]

\* no response is being sent
NoPnl == [sent |-> FALSE, revenue |-> 0, costs |-> 0, profit |-> 0,
          selfSustaining |-> FALSE]

initialStakes ==
  [u \in Users |->
     IF u = "u1"
     THEN << [user |-> "u1", stakeId |-> 0, amount |-> 100 * RAW_PER_USDC,
              startTimestamp |-> 0, durationDays |-> 10, successfulDays |-> 7,
              claimed |-> FALSE, isUSDC |-> TRUE],
             [user |-> "u1", stakeId |-> 1, amount |-> 0,
              startTimestamp |-> 0, durationDays |-> 0, successfulDays |-> 0,
              claimed |-> FALSE, isUSDC |-> TRUE] >>
     ELSE << [user |-> "u2", stakeId |-> 0, amount |-> 50 * RAW_PER_USDC,
              startTimestamp |-> 0, durationDays |-> 10, successfulDays |-> 10,
              claimed |-> TRUE, isUSDC |-> TRUE],
             [user |-> "u2", stakeId |-> 1, amount |-> 5 * lowEthThreshold,
              startTimestamp |-> 0, durationDays |-> 10, successfulDays |-> 6,
              claimed |-> FALSE, isUSDC |-> FALSE] >>]

Init ==
  /\ now = 0
  /\ openaiApiKey \in BOOLEAN
  /\ configIdleUsdcThreshold = idleUsdcThreshold
  /\ configBuilderCode = builderCode
  /\ nodeError = nonceTooLow
  /\ liquid \in {RAW_PER_USDC \div 2, 50 * RAW_PER_USDC}
  /\ aavePos = 0
  /\ eth = lowEthThreshold + 2 * GasPerTx
  /\ stakes = initialStakes
  /\ pending = <<>>
  /\ allowance = 0
  /\ totalInterest = 0
  /\ accruals = 0
  /\ actions = <<>>
  /\ revenue = <<>>
  /\ costs = <<>>
  /\ kv = [last_aave_position |-> NoValue, last_llm_call |-> NoValue]
  /\ cyc = [b \in Bodies |-> idleBody]
  /\ cyclesStarted = 0
  /\ tickSkipped = FALSE
  /\ execSeq = 0
  /\ providerLog = <<>>
  /\ faults = 0
  /\ pnl = NoPnl
  /\ reply = NoReply
  /\ scan = NoScan
  /\ res = NoRes

\* ---------------------------------------------------------- advisory module
\* a gate that never holds a call back
llmNeverTooSoon(nowMs, lastLlmCall) == FALSE

\* the rate-limit gate of llmDecision
llmTooSoon(nowMs, lastLlmCall) ==
  lastLlmCall # NoValue /\ nowMs - lastLlmCall < llmCallIntervalMs

\* BigInt(Math.floor(decision.amount_usdc * 1_000_000))
amountRawOf(amountUsdc) == amountUsdc \div LedgerPerRaw

\* typeof amount_usdc === "number" && isFinite(amount_usdc) && amount_usdc > 0
validAmount(resp) == resp.amountType = "number" /\ resp.amount > 0

llmDepositDecision(amountRaw, amountUsdc) ==
  [NoDecision EXCEPT !.action = "llm_deposit", !.amount = amountRaw,
                     !.amountUsdc = amountUsdc]

llmWithdrawDecision(amountRaw, amountUsdc) ==
  [NoDecision EXCEPT !.action = "llm_withdraw", !.amount = amountRaw,
                     !.amountUsdc = amountUsdc]

\* a validation that forgets the limits of the snapshot
llmValidateNoLimit(resp, balance, position) ==
  IF resp.kind # "json" THEN NoDecision
  ELSE IF resp.action = "none" THEN NoDecision
  ELSE IF ~validAmount(resp) THEN NoDecision
  ELSE LET amountRaw == amountRawOf(resp.amount)
       IN IF resp.action = "deposit" /\ amountRaw > 0
          THEN llmDepositDecision(amountRaw, resp.amount)
          ELSE IF resp.action = "withdraw" /\ amountRaw > 0
          THEN llmWithdrawDecision(amountRaw, resp.amount)
          ELSE NoDecision

\* what llmDecision returns for a completed provider call (NoDecision: null)
llmValidate(resp, balance, position) ==
  IF resp.kind # "json" THEN NoDecision          \* no content, or JSON.parse throws
  ELSE IF resp.action = "none" THEN NoDecision
  ELSE IF ~validAmount(resp) THEN NoDecision
  ELSE LET amountRaw == amountRawOf(resp.amount)
       IN IF resp.action = "deposit" /\ amountRaw > 0 /\ amountRaw <= balance
          THEN llmDepositDecision(amountRaw, resp.amount)
          ELSE IF resp.action = "withdraw" /\ amountRaw > 0 /\ amountRaw <= position
          THEN llmWithdrawDecision(amountRaw, resp.amount)
          ELSE NoDecision

\* amount_usdc values a reply may carry, in ledger units: negative, zero, below
\* one raw unit, 0.5000005 USDC, 100 USDC
LlmAmounts == {0 - (LEDGER_PER_USDC \div 2), 0, LedgerPerRaw \div 2,
               LEDGER_PER_USDC \div 2 + LedgerPerRaw \div 2, 100 * LEDGER_PER_USDC}

\* the provider call rejects, or completes with no content, with text that is
\* not JSON, or with a JSON object
Responses ==
  {[NoResponse EXCEPT !.kind = k] : k \in {"throw", "empty", "unparsable"}}
  \cup {[kind |-> "json", action |-> a, amountType |-> "number", amount |-> x] :
          a \in {"deposit", "withdraw"}, x \in LlmAmounts}
  \cup {[kind |-> "json", action |-> a, amountType |-> "number",
          amount |-> LEDGER_PER_USDC \div 2 + LedgerPerRaw \div 2] :
          a \in {"none", "swap"}}
  \cup {[kind |-> "json", action |-> "deposit", amountType |-> t, amount |-> 0] :
          t \in {"string", "Infinity"}}

\* a step that is neither a skipped tick nor a served request
\* no request is being answered
ReqReset == tickSkipped' = FALSE /\ pnl' = NoPnl /\ res' = NoRes /\ reply' = NoReply

ObsReset == ReqReset /\ scan' = NoScan

\* ------------------------------------------------------- cycle orchestrator
running == {b \in Bodies : cyc[b].pc # "idle"}

\* a timer callback that starts a body whenever a slot is free
tickAlwaysStarts == \E b \in Bodies : cyc[b].pc = "idle"

\* The timer callback starts a cycle body only when none is running.
tickMayStart == running = {}

Tick ==
  /\ cyclesStarted < MaxCycles
  /\ tickMayStart
  /\ \E b \in Bodies :
       /\ cyc[b].pc = "idle"
       /\ \A x \in Bodies : cyc[x].pc = "idle" => b <= x
       /\ cyc' = [cyc EXCEPT ![b] = [idleBody EXCEPT !.pc = "decide"]]
  /\ cyclesStarted' = cyclesStarted + 1
  /\ UNCHANGED <<envVars, chainVars, ledgerVars, execSeq, providerLog, faults>>
  /\ ObsReset

\* The timer fires while a body is running: nothing is started.
TickSkipped ==
  /\ cyclesStarted < MaxCycles
  /\ ~tickMayStart
  /\ tickSkipped' = TRUE
  /\ pnl' = NoPnl
  /\ reply' = NoReply
  /\ scan' = NoScan
  /\ res' = NoRes
  /\ UNCHANGED <<envVars, chainVars, ledgerVars, cyc, cyclesStarted, execSeq,
                 providerLog, faults>>

\* a gathering that puts zero balances in place of the reads that failed and
\* goes on to the rules
gatherDefaultsToZero(c) == [c EXCEPT !.pc = "exec", !.queue = rule3(0)]

\* await gatherState() rejects before any rule has run: nothing is pushed
gatherRejects(c) == idleBody

\* gatherState() rejects: the exception leaves runDecisionCycle
GatherFails(b) ==
  /\ cyc[b].pc \in {"decide", "llm"}
  /\ cyc[b].pc = "llm" => (openaiApiKey /\ ~llmTooSoon(now, getState("last_llm_call")))
  /\ faults < MaxFaults
  /\ faults' = faults + 1
  /\ cyc' = [cyc EXCEPT ![b] = gatherRejects(cyc[b])]
  /\ UNCHANGED <<envVars, chainVars, ledgerVars, cyclesStarted, execSeq,
                 providerLog>>
  /\ ObsReset

\* users.add(e.args.user) over the events in order: a Set keeps the order of
\* the first insertions
RECURSIVE addAll(_, _)
addAll(users, events) ==
  IF events = <<>> THEN users
  ELSE addAll(IF \E i \in 1 .. Len(users) : users[i] = Head(events)
              THEN users ELSE Append(users, Head(events)),
              Tail(events))

\* findActiveStakers() when both getLogs resolve; events holds the users of
\* the Staked events of the block window, native stakes first
findActiveStakers(events) == addAll(StakerOrder, events)

\* the Staked events of the block window: none, or stakes of listed stakers
EventLogs == {<<>>, <<"u2", "u1", "u2">>}

\* the reads of Rule 2 that may fail: the event scan, or one staker's stakes
ReadFailures ==
  {[scan |-> FALSE, stakers |-> {}]}
  \cup {[scan |-> TRUE, stakers |-> {}]}
  \cup {[scan |-> FALSE, stakers |-> {u}] : u \in Users}

\* Decisions pushed with the low-gas alert ahead of the transactions
pushOrderAlertFirst(r1, r2, r3) == r3 \o r1 \o r2

\* decisions.push(...) in the order of the rules: Rule 1, Rule 2, Rule 3
pushOrder(r1, r2, r3) == r1 \o r2 \o r3

\* deterministicDecisions(): Rule 0 with its ledger writes, then Rules 1-3
rulesStep(b, events) ==
  /\ cyc[b].pc = "decide"
  /\ \E rf \in ReadFailures :
       LET last == getState("last_aave_position")
           isYield == yieldDetected(aavePos, last)
           yieldUsdc == formatUnits6(aavePos - last)
           stakers == IF rf.scan THEN <<>> ELSE findActiveStakers(events)
           decisions == pushOrder(rule1(liquid), rule2(stakers, rf.stakers, now), rule3(eth))
           nFail == IF rf.scan \/ rf.stakers # {} THEN 1 ELSE 0
       IN /\ faults + nFail <= MaxFaults
          /\ faults' = faults + nFail
          /\ revenue' = IF isYield
                        THEN logRevenue(revenue, "aave_yield", yieldUsdc, FALSE, 0)
                        ELSE revenue
          /\ actions' = IF isYield
                        THEN logAction(actions, "aave_yield", <<>>, yieldUsdc, FALSE, TRUE, 0)
                        ELSE actions
          /\ kv' = setState(kv, "last_aave_position", aavePos)
          /\ cyc' = [cyc EXCEPT ![b] = [@ EXCEPT !.pc = "exec", !.phase = "rules",
                                                   !.queue = decisions,
                                                   !.nRules = Len(decisions),
                                                   !.unspent = liquid]]
          /\ scan' = [done |-> TRUE, failed |-> rf.scan, events |-> events,
                       failing |-> rf.stakers, visited |-> stakers]
  /\ UNCHANGED <<envVars, chainVars, costs, cyclesStarted, execSeq, providerLog>>
  /\ ReqReset

deterministicDecisions(b) == \E events \in EventLogs : rulesStep(b, events)

TxActions == {"aave_supply", "resolve_expired", "llm_deposit", "llm_withdraw"}
PositionActions == {"aave_supply", "llm_deposit", "llm_withdraw"}

\* the loop of runDecisionCycle moves on to the next Decision
nextDecision(c, threw) ==
  [c EXCEPT !.pc = "exec", !.queue = Tail(c.queue), !.cur = NoDecision,
            !.attempted = c.attempted + 1, !.eid = 0,
            !.failed = IF threw THEN c.failed \cup {c.attempted + 1} ELSE c.failed]

\* a catch that gives up on the Decisions still queued
catchAborts(c) == [nextDecision(c, TRUE) EXCEPT !.queue = <<>>]

\* catch (e) of runDecisionCycle: one failure row, then the loop goes on
catchFailure(c) == nextDecision(c, TRUE)

kindOf(d) ==
  CASE d.action \in {"aave_supply", "llm_deposit"} -> "supply"
    [] d.action = "llm_withdraw" -> "withdraw"
    [] OTHER -> "resolve"

\* sendTransaction(tx): the input data sent is the calldata with the suffix
sendTransaction(calldata, code) == appendBuilderCode(calldata, code)

\* the transaction a Decision submits
txOf(d) ==
  [kind |-> kindOf(d), amount |-> d.amount, user |-> d.user, stakeId |-> d.stakeId,
   calldata |-> encodeFunctionData(kindOf(d)), code |-> configBuilderCode,
   data |-> sendTransaction(encodeFunctionData(kindOf(d)), configBuilderCode)]

\* approve(aavePool, 2^128 - 1); the model's amounts all stay below it
approveAmount == 2000 * RAW_PER_USDC

\* the approval ensureApproval sends through walletClient.sendTransaction
approveTx ==
  [kind |-> "approve", amount |-> approveAmount, user |-> "", stakeId |-> 0,
   calldata |-> encodeFunctionData("approve"), code |-> <<>>,
   data |-> encodeFunctionData("approve")]

\* a submission the body has called and that has answered
acked(c) == [c EXCEPT !.inflight = c.inflight - 1]

\* a loop that starts a Decision while a submission is still unanswered
startsWithoutAwait(c) == c.pc \in {"exec", "approve", "submit"}

\* await d.execute(): the loop is between two Decisions
awaitsPrevious(c) == c.pc = "exec"

\* execute() starts: supplyUsdc reads the allowance first (ensureApproval)
ExecuteStart(b) ==
  LET c == cyc[b]
      d == Head(c.queue)
  IN
  /\ c.queue # <<>> /\ awaitsPrevious(c)
  /\ d.action \in TxActions
  /\ cyc' = [cyc EXCEPT ![b] =
               [c EXCEPT !.pc = IF kindOf(d) = "supply" /\ allowance < d.amount
                                THEN "approve" ELSE "submit",
                         !.inflight = c.inflight + 1]]
  /\ UNCHANGED <<envVars, chainVars, ledgerVars, cyclesStarted, execSeq, providerLog,
                 faults>>
  /\ ObsReset

\* ensureApproval: the approval is acknowledged
SendApproval(b) ==
  LET c == cyc[b] IN
  /\ c.pc = "approve"
  /\ Len(pending) < MaxPending
  /\ eth >= GasPerTx
  /\ pending' = Append(pending, approveTx)
  /\ cyc' = [cyc EXCEPT ![b] = [acked(c) EXCEPT !.pc = "approving"]]
  /\ UNCHANGED <<envVars, liquid, aavePos, eth, stakes, allowance, ledgerVars,
                 cyclesStarted, execSeq, providerLog, faults>>
  /\ ObsReset

\* an ensureApproval that goes on as soon as the approval has its hash
receiptNotAwaited(queue) == TRUE

\* await publicClient.waitForTransactionReceipt({ hash }): it resolves once the
\* approval is no longer among the transactions waiting to be mined
waitForTransactionReceipt(queue) ==
  \A i \in 1 .. Len(queue) : queue[i].kind # "approve"

\* ensureApproval: waitForTransactionReceipt resolves, the supply is sent
ApprovalReceipt(b) ==
  LET c == cyc[b] IN
  /\ c.pc = "approving"
  /\ waitForTransactionReceipt(pending)
  /\ cyc' = [cyc EXCEPT ![b] = [c EXCEPT !.pc = "submit", !.inflight = c.inflight + 1]]
  /\ UNCHANGED <<envVars, chainVars, ledgerVars, cyclesStarted, execSeq, providerLog,
                 faults>>
  /\ ObsReset

\* rows execute() writes once the submission is acknowledged
actionRowOf(d, eid) ==
  CASE d.action = "aave_supply" ->
         logAction(actions, "aave_supply", <<>>, formatUnits6(d.amount), TRUE, TRUE, eid)
    [] d.action = "resolve_expired" ->
         logAction(actions, "resolve_expired",
                   resolvedDescription(d.user, d.stakeId, d.failedDays),
                   d.treasuryRevenue, TRUE, TRUE, eid)
    [] OTHER -> logAction(actions, d.action, <<>>, d.amountUsdc, TRUE, TRUE, eid)

revenueRowsOf(d, eid) ==
  IF d.action = "resolve_expired" /\ d.treasuryRevenue > 0
  THEN logRevenue(revenue, "treasury_slash", d.treasuryRevenue, TRUE, eid)
  ELSE revenue

costRowsOf(d, eid) ==
  IF d.action \in {"aave_supply", "resolve_expired"}
  THEN logCost(costs, "gas", GAS_COST_ESTIMATE_USD, eid)
  ELSE costs

\* an execute() that books the revenue before the submission is acknowledged
revenueBeforeSubmit(d, eid) == revenueRowsOf(d, eid)

\* the revenue table when the submission (the first await of execute()) throws:
\* every ledger write of execute() comes after it
revenueAtThrow(d, eid) == revenue

\* a node that leaves a submission the wallet cannot fund unanswered
neverRejectsUnfunded(balance) == FALSE

\* the node refuses a submission whose gas the wallet cannot pay
rejectsUnfunded(balance) == balance < GasPerTx

\* sendTransaction rejects: execute() throws before writing anything
ExecuteThrows(b) ==
  LET c == cyc[b] IN
  /\ c.pc \in {"approve", "submit"}
  /\ IF rejectsUnfunded(eth)
     THEN UNCHANGED faults
     ELSE faults < MaxFaults /\ faults' = faults + 1
  /\ actions' = logAction(actions, Head(c.queue).action, failureDescription(nodeError),
                          0, FALSE, FALSE, execSeq + 1)
  /\ execSeq' = execSeq + 1
  /\ revenue' = revenueAtThrow(Head(c.queue), execSeq + 1)
  /\ cyc' = [cyc EXCEPT ![b] = catchFailure(acked(c))]
  /\ UNCHANGED <<envVars, chainVars, costs, kv, cyclesStarted, providerLog>>
  /\ ObsReset

DepositActions == {"aave_supply", "llm_deposit"}

\* ghost: what is left of the liquid balance the cycle started with once the
\* deposits it has executed are taken off
spend(c, d) ==
  IF d.action \in DepositActions THEN [c EXCEPT !.unspent = @ - d.amount] ELSE c

\* sendTransaction returns the hash: the transaction is acknowledged, not mined
ExecuteSubmit(b) ==
  LET c == cyc[b]
      d == Head(c.queue)
      eid == execSeq + 1
  IN
  /\ c.pc = "submit"
  /\ Len(pending) < MaxPending
  /\ eth >= GasPerTx
  /\ pending' = Append(pending, txOf(d))
  /\ actions' = actionRowOf(d, eid)
  /\ revenue' = revenueRowsOf(d, eid)
  /\ costs' = costRowsOf(d, eid)
  /\ execSeq' = eid
  /\ cyc' = [cyc EXCEPT ![b] =
               IF d.action \in PositionActions
               THEN [spend(acked(c), d) EXCEPT !.pc = "reread", !.cur = d, !.eid = eid]
               ELSE nextDecision(acked(c), FALSE)]
  /\ UNCHANGED <<envVars, liquid, aavePos, eth, stakes, allowance, kv, cyclesStarted,
                 providerLog, faults>>
  /\ ObsReset

\* execute() of low_eth_warning: one warning row, no transaction
ExecuteWarning(b) ==
  LET c == cyc[b] IN
  /\ c.pc = "exec" /\ c.queue # <<>>
  /\ Head(c.queue).action = "low_eth_warning"
  /\ actions' = logAction(actions, "warning", <<>>, 0, FALSE, TRUE, execSeq + 1)
  /\ execSeq' = execSeq + 1
  /\ cyc' = [cyc EXCEPT ![b] = nextDecision(c, FALSE)]
  /\ UNCHANGED <<envVars, chainVars, revenue, costs, kv, cyclesStarted, providerLog,
                 faults>>
  /\ ObsReset

\* an execute() that leaves the cursor as the rules wrote it
cursorKept(position) == kv

\* setState("last_aave_position", newPosition.toString())
cursorAfterReread(position) == setState(kv, "last_aave_position", position)

\* const newPosition = await getAavePosition(); setState("last_aave_position", ...)
RereadPosition(b) ==
  LET c == cyc[b] IN
  /\ c.pc = "reread"
  /\ kv' = cursorAfterReread(aavePos)
  /\ cyc' = [cyc EXCEPT ![b] = nextDecision(c, FALSE)]
  /\ UNCHANGED <<envVars, chainVars, actions, revenue, costs, cyclesStarted, execSeq,
                 providerLog, faults>>
  /\ ObsReset

\* getAavePosition() rejects after the deposit or withdrawal was logged
RereadThrows(b) ==
  LET c == cyc[b] IN
  /\ c.pc = "reread"
  /\ faults < MaxFaults
  /\ faults' = faults + 1
  /\ actions' = logAction(actions, c.cur.action, failureDescription(nodeError),
                          0, FALSE, FALSE, c.eid)
  /\ cyc' = [cyc EXCEPT ![b] = catchFailure(c)]
  /\ UNCHANGED <<envVars, chainVars, revenue, costs, kv, cyclesStarted, execSeq,
                 providerLog>>
  /\ ObsReset

\* the for loop over the deterministic Decisions is over: call llmDecision()
RulesDone(b) ==
  LET c == cyc[b] IN
  /\ c.pc = "exec" /\ c.queue = <<>> /\ c.phase = "rules"
  /\ cyc' = [cyc EXCEPT ![b] = [c EXCEPT !.pc = "llm"]]
  /\ UNCHANGED <<envVars, chainVars, ledgerVars, cyclesStarted, execSeq, providerLog,
                 faults>>
  /\ ObsReset

llmReturns(c, resp, d) ==
  [c EXCEPT !.pc = "exec", !.phase = "llm", !.llmRan = TRUE, !.llmNow = now,
            !.resp = resp, !.queue = IF d = NoDecision THEN <<>> ELSE <<d>>]

\* llmDecision() returns null before any provider call: no key, or too soon
llmSkipped(b) ==
  LET c == cyc[b] IN
  /\ c.pc = "llm"
  /\ ~openaiApiKey \/ llmTooSoon(now, getState("last_llm_call"))
  /\ cyc' = [cyc EXCEPT ![b] = llmReturns(c, NoResponse, NoDecision)]
  /\ UNCHANGED <<envVars, chainVars, ledgerVars, cyclesStarted, execSeq, providerLog,
                 faults>>
  /\ ObsReset

\* a cost that is booked only when the reply gives a Decision
llmCostOnDecision(resp) ==
  IF llmValidate(resp, liquid, aavePos) = NoDecision THEN costs
  ELSE logCost(costs, "llm", LLM_COST_USD, 0)

\* logCost("llm", 0.0001, ...) right after the provider call resolves
llmCost(resp) == logCost(costs, "llm", LLM_COST_USD, 0)

\* a timestamp that is written when the call is made, before its answer
llmStampAtCall(resp) == setState(kv, "last_llm_call", now)

\* setState("last_llm_call", String(now)) once the provider call has resolved
llmStamp(resp) ==
  IF resp.kind = "throw" THEN kv ELSE setState(kv, "last_llm_call", now)

\* llmDecision() calls the provider, which answers resp
llmCall(b, resp) ==
  LET c == cyc[b] IN
  /\ c.pc = "llm"
  /\ openaiApiKey /\ ~llmTooSoon(now, getState("last_llm_call"))
  /\ providerLog' = Append(providerLog, [at |-> now, completed |-> resp.kind # "throw"])
  /\ IF resp.kind = "throw"
     THEN /\ faults < MaxFaults
          /\ faults' = faults + 1
          /\ UNCHANGED costs
          /\ cyc' = [cyc EXCEPT ![b] = llmReturns(c, resp, NoDecision)]
     ELSE /\ costs' = llmCost(resp)
          /\ cyc' = [cyc EXCEPT ![b] =
                       llmReturns(c, resp, llmValidate(resp, liquid, aavePos))]
          /\ UNCHANGED faults
  /\ kv' = llmStamp(resp)
  /\ UNCHANGED <<envVars, chainVars, actions, revenue, cyclesStarted, execSeq>>
  /\ ObsReset

llmDecision(b) == \E resp \in Responses : llmCall(b, resp)

\* runDecisionCycle returns
Finish(b) ==
  LET c == cyc[b] IN
  /\ c.pc = "exec" /\ c.queue = <<>> /\ c.phase = "llm"
  /\ cyc' = [cyc EXCEPT ![b] = [c EXCEPT !.pc = "done", !.resp = NoResponse]]
  /\ UNCHANGED <<envVars, chainVars, ledgerVars, cyclesStarted, execSeq, providerLog,
                 faults>>
  /\ ObsReset

\* the fixed compute CostEvent of a cycle, in ledger units
COMPUTE_COST_USD == LEDGER_PER_USDC \div 1000

\* a compute cost booked only for a cycle in which a Decision ran
settleCostsIfDecision(c) ==
  IF c.attempted = 0 THEN costs ELSE logCost(costs, "compute", COMPUTE_COST_USD, 0)

\* the orchestrator records the compute cost of the completed cycle
settleCosts(c) == logCost(costs, "compute", COMPUTE_COST_USD, 0)

\* the caller takes the result and settles the cycle; the body is over
Return(b) ==
  /\ cyc[b].pc = "done"
  /\ costs' = settleCosts(cyc[b])
  /\ cyc' = [cyc EXCEPT ![b] = idleBody]
  /\ UNCHANGED <<envVars, chainVars, actions, revenue, kv, cyclesStarted, execSeq,
                 providerLog, faults>>
  /\ ObsReset

\* ------------------------------------------------------------------- chain
\* the next acknowledged transaction is mined; one that cannot apply reverts
Mine ==
  /\ pending # <<>>
  /\ LET tx == Head(pending) IN
       /\ pending' = Tail(pending)
       /\ eth' = IF eth >= GasPerTx THEN eth - GasPerTx ELSE 0
       /\ CASE tx.kind = "supply" /\ tx.amount <= liquid /\ tx.amount <= allowance ->
                 /\ liquid' = liquid - tx.amount
                 /\ aavePos' = aavePos + tx.amount
                 /\ UNCHANGED <<stakes, allowance>>
            [] tx.kind = "withdraw" /\ tx.amount <= aavePos ->
                 /\ liquid' = liquid + tx.amount
                 /\ aavePos' = aavePos - tx.amount
                 /\ UNCHANGED <<stakes, allowance>>
            [] tx.kind = "resolve" /\ ~stakes[tx.user][tx.stakeId + 1].claimed ->
                 /\ stakes' = [stakes EXCEPT ![tx.user][tx.stakeId + 1].claimed = TRUE]
                 /\ UNCHANGED <<liquid, aavePos, allowance>>
            [] tx.kind = "approve" ->
                 /\ allowance' = tx.amount
                 /\ UNCHANGED <<liquid, aavePos, stakes>>
            [] OTHER -> UNCHANGED <<liquid, aavePos, stakes, allowance>>
  /\ UNCHANGED <<envVars, ledgerVars, cyc, cyclesStarted, execSeq, providerLog,
                 faults>>
  /\ ObsReset

\* the next acknowledged transaction is mined and reverts (out of gas, a state
\* that changed since it was sent): it costs gas and changes nothing else
Revert ==
  /\ pending # <<>>
  /\ faults < MaxFaults
  /\ faults' = faults + 1
  /\ pending' = Tail(pending)
  /\ eth' = IF eth >= GasPerTx THEN eth - GasPerTx ELSE 0
  /\ UNCHANGED <<liquid, aavePos, stakes, allowance>>
  /\ UNCHANGED <<envVars, ledgerVars, cyc, cyclesStarted, execSeq, providerLog>>
  /\ ObsReset

\* the lending pool credits interest to the position
Accrue ==
  /\ accruals < MaxAccruals
  /\ aavePos > 0
  /\ \E i \in AccrualAmounts :
       /\ aavePos' = aavePos + i
       /\ totalInterest' = totalInterest + i
  /\ accruals' = accruals + 1
  /\ UNCHANGED <<now, openaiApiKey, configIdleUsdcThreshold, configBuilderCode, nodeError,
                 liquid, eth,
                 stakes, pending,
                 allowance, ledgerVars, cyc,
                 cyclesStarted, execSeq, providerLog, faults>>
  /\ ObsReset

\* time passes
Advance ==
  /\ \E t \in Times : t > now /\ now' = t
  /\ UNCHANGED <<openaiApiKey, configIdleUsdcThreshold, configBuilderCode, nodeError,
                 totalInterest,
                 accruals, chainVars,
                 ledgerVars, cyc,
                 cyclesStarted, execSeq, providerLog, faults>>
  /\ ObsReset

\* --------------------------------------------------------------------- API
\* GET /api/pnl
GetPnl ==
  /\ LET rev == getTotalRevenue
         cst == getTotalCosts
     IN pnl' = [sent |-> TRUE, revenue |-> rev, costs |-> cst, profit |-> rev - cst,
                selfSustaining |-> rev > cst]
  /\ tickSkipped' = FALSE
  /\ res' = NoRes
  /\ reply' = NoReply
  /\ scan' = NoScan
  /\ UNCHANGED <<envVars, chainVars, ledgerVars, cyc, cyclesStarted, execSeq,
                 providerLog, faults>>

isDigit(c) == c \in {"0", "1", "2", "3", "4", "5", "6", "7", "8", "9"}
digitValue(c) == (CHOOSE k \in 1 .. 10 : DecimalDigits[k] = c) - 1

\* parseInt of a run of digits
RECURSIVE parseInt(_)
parseInt(ds) ==
  IF ds = <<>> THEN 0
  ELSE 10 * parseInt(SubSeq(ds, 1, Len(ds) - 1)) + digitValue(ds[Len(ds)])

\* The answer of a dashboard route: res.json(body), or status 500 with the
\* message of the error when a read rejected.
respond(route, failed, body) ==
  /\ reply' = [sent |-> TRUE, route |-> route,
               status |-> IF failed THEN 500 ELSE 200,
               body |-> IF failed THEN [error |-> TRUE] ELSE body]
  /\ tickSkipped' = FALSE
  /\ pnl' = NoPnl
  /\ res' = NoRes
  /\ scan' = NoScan

\* GET /health
GetHealth ==
  /\ respond("/health", FALSE, [status |-> "ok"])
  /\ UNCHANGED <<envVars, chainVars, ledgerVars, cyc, cyclesStarted, execSeq,
                 providerLog, faults>>

\* GET /api/status; the ratio revenue / costs is kept as the two totals.  The
\* keys cycle_count and last_cycle are written by no code of the engine and
\* read as "0" and "never".
GetStatus ==
  \E rpcFails \in BOOLEAN :
    /\ LET totalRevenue == getTotalRevenue
           totalCosts == getTotalCosts
       IN respond("/api/status", rpcFails,
                  [cycleCount |-> 0, lastCycle |-> "never",
                   selfSustaining |-> totalRevenue - totalCosts > 0,
                   scoreNum |-> IF totalCosts > 0 THEN totalRevenue ELSE 0,
                   scoreDen |-> IF totalCosts > 0 THEN totalCosts ELSE 1])
    /\ UNCHANGED <<envVars, chainVars, ledgerVars, cyc, cyclesStarted, execSeq,
                   providerLog, faults>>

\* GET /api/balances; the raw amounts, the percentage of the total that is
\* lent being left out of the body
GetBalances ==
  \E rpcFails \in BOOLEAN :
    /\ LET totalUsdc == liquid + aavePos
       IN respond("/api/balances", rpcFails,
                  [eth |-> eth, usdc |-> liquid, aUsdc |-> aavePos,
                   totalUsdc |-> totalUsdc])
    /\ UNCHANGED <<envVars, chainVars, ledgerVars, cyc, cyclesStarted, execSeq,
                   providerLog, faults>>

\* SELECT source, SUM(amount_usdc) FROM revenue GROUP BY source, as the set of
\* the groups
getRevenueBySource ==
  {[source |-> s,
    total |-> SumAmounts(SelectSeq(revenue, LAMBDA r : r.source = s))] :
     s \in {revenue[i].source : i \in 1 .. Len(revenue)}}

\* SELECT category, SUM(amount_usdc) FROM costs GROUP BY category
getCostsByCategory ==
  {[category |-> k,
    total |-> SumAmounts(SelectSeq(costs, LAMBDA r : r.category = k))] :
     k \in {costs[i].category : i \in 1 .. Len(costs)}}

\* GET /api/revenue
GetRevenue ==
  /\ respond("/api/revenue", FALSE,
             [total |-> getTotalRevenue, bySource |-> getRevenueBySource])
  /\ UNCHANGED <<envVars, chainVars, ledgerVars, cyc, cyclesStarted, execSeq,
                 providerLog, faults>>

\* GET /api/costs
GetCosts ==
  /\ respond("/api/costs", FALSE,
             [total |-> getTotalCosts, byCategory |-> getCostsByCategory])
  /\ UNCHANGED <<envVars, chainVars, ledgerVars, cyc, cyclesStarted, execSeq,
                 providerLog, faults>>

DEFAULT_LIMIT == 50     \* parseInt(req.query.limit) || 50

\* Number.NaN
NaN == [nan |-> TRUE, value |-> 0]

\* parseInt(String(q)) in radix 10: leading white space is skipped, a sign is
\* read, then the longest run of digits; NaN when there is no digit.  A query
\* parameter that is absent is the text "undefined".
parseIntText(text) ==
  LET n == Len(text)
      isSpace(c) == c \in {" ", "\n", "\t"}
      first == IF \E i \in 1 .. n : ~isSpace(text[i])
               THEN CHOOSE i \in 1 .. n :
                      ~isSpace(text[i]) /\ \A j \in 1 .. i - 1 : isSpace(text[j])
               ELSE n + 1
      signed == first <= n /\ text[first] \in {"-", "+"}
      from == IF signed THEN first + 1 ELSE first
      to == IF from <= n /\ isDigit(text[from])
            THEN CHOOSE j \in from .. n :
                   /\ \A k \in from .. j : isDigit(text[k])
                   /\ j = n \/ ~isDigit(text[j + 1])
            ELSE from - 1
  IN IF to < from THEN NaN
     ELSE [nan |-> FALSE,
           value |-> IF signed /\ text[first] = "-"
                     THEN 0 - parseInt(SubSeq(text, from, to))
                     ELSE parseInt(SubSeq(text, from, to))]

\* parseInt(req.query.limit as string) || 50
limitOf(query) ==
  LET parsed == parseIntText(IF query.present THEN query.value
                             ELSE <<"u", "n", "d", "e", "f", "i", "n", "e", "d">>)
  IN IF parsed.nan \/ parsed.value = 0 THEN DEFAULT_LIMIT ELSE parsed.value

\* SELECT * FROM actions ORDER BY id DESC LIMIT ?: a negative LIMIT puts no
\* upper bound on the number of rows.
getRecentActions(tbl, limit) ==
  LET n == Len(tbl)
      k == IF limit < 0 THEN n ELSE Min(limit, n)
  IN [i \in 1 .. k |-> tbl[n - i + 1]]

\* the values of the query parameter limit: absent, empty, zero, negative, not
\* a number, a number followed by text, small, very large
LimitQueries ==
  {[present |-> FALSE, value |-> <<>>],
   [present |-> TRUE, value |-> <<>>],
   [present |-> TRUE, value |-> <<"0">>],
   [present |-> TRUE, value |-> <<"-", "1">>],
   [present |-> TRUE, value |-> <<"a", "b", "c">>],
   [present |-> TRUE, value |-> <<"2", "x">>],
   [present |-> TRUE, value |-> <<"5", "1">>],
   [present |-> TRUE, value |-> <<"1", "0", "0", "0", "0", "0", "0">>]}

\* a route that also writes the request into the action log
actionsRequestLogged(query) ==
  /\ respond("/api/actions", FALSE,
             [actions |-> getRecentActions(actions, limitOf(query))])
  /\ actions' = logAction(actions, "api_request", <<>>, 0, FALSE, TRUE, 0)
  /\ UNCHANGED <<envVars, chainVars, revenue, costs, kv, cyc, cyclesStarted, execSeq,
                 providerLog, faults>>

\* GET /api/actions?limit=
actionsRequest(query) ==
  /\ respond("/api/actions", FALSE,
             [actions |-> getRecentActions(actions, limitOf(query))])
  /\ UNCHANGED <<envVars, chainVars, ledgerVars, cyc, cyclesStarted, execSeq,
                 providerLog, faults>>

GetActions == \E query \in LimitQueries : actionsRequest(query)

\* ------------------------------------------------------------ attestation
MaxReceipts == 2        \* paid attestation queries booked as revenue

HexDigits == {"0", "1", "2", "3", "4", "5", "6", "7", "8", "9",
              "a", "b", "c", "d", "e", "f"}

\* a test that only looks at the "0x" in front
isAddressByPrefix(wallet) == Len(wallet) >= 2 /\ wallet[1] = "0" /\ wallet[2] = "x"

\* isAddress(wallet) for a string without capital letters: /^0x[a-fA-F0-9]{40}$/
isAddress(wallet) ==
  /\ Len(wallet) = 42 /\ wallet[1] = "0" /\ wallet[2] = "x"
  /\ \A i \in 3 .. 42 : wallet[i] \in HexDigits

\* getAllStakes(wallet): the records of the wallet the contract has not zeroed
getAllStakes(wallet) ==
  IF \E u \in Users : addressOf(u) = wallet
  THEN SelectSeq(stakes[CHOOSE u \in Users : addressOf(u) = wallet],
                 LAMBDA st : st.amount > 0)
  ELSE <<>>

\* ... WHERE type = 'resolve_expired' AND success = 1 AND description LIKE
\* '%' || wallet.slice(0, 10) || '%'
getResolvedStakesForWallet(tbl, wallet) ==
  SelectSeq(tbl, LAMBDA a : /\ a.type = "resolve_expired" /\ a.success
                                /\ partOf(slice(wallet, 10), a.description))

FAILED_DAYS == <<" ", "f", "a", "i", "l", "e", "d", " ", "d", "a", "y", "s">>

\* description.match(/(\d+) failed days/): the digits of the leftmost match,
\* or NoMatch.  \d+ takes the whole run of digits, so the leftmost match
\* starts where a run of digits starts.
matchFailedDays(description) ==
  LET n == Len(description)
      runEnd(i) == CHOOSE j \in i .. n :
                     /\ j = n \/ ~isDigit(description[j + 1])
                     /\ \A k \in i .. j : isDigit(description[k])
      hits == {i \in 1 .. n :
                 /\ isDigit(description[i])
                 /\ i = 1 \/ ~isDigit(description[i - 1])
                 /\ runEnd(i) + Len(FAILED_DAYS) <= n
                 /\ SubSeq(description, runEnd(i) + 1, runEnd(i) + Len(FAILED_DAYS))
                      = FAILED_DAYS}
  IN IF hits = {} THEN NoMatch
     ELSE LET i == CHOOSE x \in hits : \A y \in hits : x <= y
          IN SubSeq(description, i, runEnd(i))

\* Math.round(p / q) for p >= 0 and q > 0
roundDiv(p, q) == (2 * p + q) \div (2 * q)

\* Math.round(successRate * 100 * (0.5 + 0.5 * Math.min(totalDuration / 30, 1)))
\* for the rate rateNum / rateDen
scoreOf(rateNum, rateDen, totalDays) ==
  roundDiv(rateNum * 100 * (30 + Min(totalDays, 30)), rateDen * 60)

RECURSIVE sumDays(_, _)
sumDays(sts, field) ==
  IF sts = <<>> THEN 0 ELSE Head(sts)[field] + sumDays(Tail(sts), field)

\* buildAttestation(wallet, stakes)
buildAttestation(sts) ==
  IF sts = <<>> THEN NoAttestation
  ELSE LET totalSuccessful == sumDays(sts, "successfulDays")
           totalDuration == sumDays(sts, "durationDays")
           \* successRate = totalDuration > 0 ? min(totalSuccessful / totalDuration, 1) : 0
           num == IF totalDuration > 0 THEN Min(totalSuccessful, totalDuration) ELSE 0
           den == IF totalDuration > 0 THEN totalDuration ELSE 1
       IN [isStaking |-> TRUE, totalStakes |-> Len(sts),
           daysCompleted |-> totalSuccessful, totalDays |-> totalDuration,
           rateNum |-> num, rateDen |-> den,
           successRate |-> roundDiv(num * 100, den),
           disciplineScore |-> scoreOf(num, den, totalDuration),
           isActive |->
             \E i \in 1 .. Len(sts) :
               /\ ~sts[i].claimed
               /\ now \div 1000 <
                    sts[i].startTimestamp + sts[i].durationDays * SECONDS_PER_DAY]

\* the loop over the resolved rows: <<totalFailed, totalDuration>>
RECURSIVE resolvedTotals(_)
resolvedTotals(rows) ==
  IF rows = <<>> THEN <<0, 0>>
  ELSE LET before == resolvedTotals(SubSeq(rows, 1, Len(rows) - 1))
           match == matchFailedDays(rows[Len(rows)].description)
           totalFailed == before[1] + (IF match # NoMatch THEN parseInt(match) ELSE 0)
       IN <<totalFailed, before[2] + (IF totalFailed > 0 THEN totalFailed ELSE 7)>>

\* the attestation enriched from the agent's own resolved rows
fallbackAttestation(attestation, resolved) ==
  LET totalFailed == resolvedTotals(resolved)[1]
      totalDuration == resolvedTotals(resolved)[2]
      \* successRate = max(1 - totalFailed / (totalDuration + totalFailed), 0)
      num == IF totalDuration > 0 THEN totalDuration ELSE 0
      den == IF totalDuration > 0 THEN totalDuration + totalFailed ELSE 1
  IN [attestation EXCEPT
        !.isStaking = TRUE, !.totalStakes = Len(resolved),
        !.daysCompleted = IF totalDuration > totalFailed
                          THEN totalDuration - totalFailed ELSE 0,
        !.totalDays = totalDuration,
        !.rateNum = num, !.rateDen = den,
        !.successRate = roundDiv(num * 100, den),
        \* Math.round(successRate * 100 * 0.7)
        !.disciplineScore = roundDiv(num * 70, den),
        !.isActive = FALSE]

\* the attestation of the stakes read, enriched when they are none
attest(sts, tbl, wallet) ==
  LET attestation == buildAttestation(sts)
      resolved == getResolvedStakesForWallet(tbl, wallet)
  IN IF ~attestation.isStaking /\ resolved # <<>>
     THEN fallbackAttestation(attestation, resolved)
     ELSE attestation

\* what the handler answers with once the chain read has resolved
attestationOf(wallet) == attest(getAllStakes(wallet), actions, wallet)

X402_PRICE_USD == LEDGER_PER_USDC \div 100        \* 0.01

x402Rows == SelectSeq(revenue, LAMBDA r : r.source = "x402_attestation")

\* the wallets of the requests: the two stakers, an address that never staked
\* and four malformed ones ("0xZZZ", no "0x", 41 digits, a letter g)
RequestWallets ==
  {addressOf("u1"), addressOf("u2"), <<"0", "x">> \o fill("c", 40),
   <<"0", "x", "Z", "Z", "Z">>, fill("a", 42), <<"0", "x">> \o fill("a", 39),
   <<"0", "x">> \o fill("a", 39) \o <<"g">>}

\* req.headers["x-payment-receipt"]: absent, empty, or a receipt
NoHeader == [present |-> FALSE, value |-> <<>>]
Receipts == {NoHeader, [present |-> TRUE, value |-> <<>>],
             [present |-> TRUE, value |-> <<"r", "c", "p", "t">>]}

\* GET /v1/attestation/:wallet
attestationRequest(wallet, paymentReceipt, rpcFails) ==
  /\ (isAddress(wallet) /\ ~rpcFails /\ paymentReceipt.value # <<>>) =>
       Len(x402Rows) < MaxReceipts
  /\ IF ~isAddress(wallet)
     THEN /\ res' = [NoRes EXCEPT !.sent = TRUE, !.wallet = wallet,
                                  !.receipt = paymentReceipt.present,
                                  !.status = 400]
          /\ UNCHANGED revenue
     ELSE IF rpcFails
     THEN /\ res' = [NoRes EXCEPT !.sent = TRUE, !.wallet = wallet,
                                  !.receipt = paymentReceipt.present,
                                  !.status = 503, !.reads = 1]
          /\ UNCHANGED revenue
     ELSE /\ res' = [sent |-> TRUE, wallet |-> wallet,
                     receipt |-> paymentReceipt.present, status |-> 200,
                     reads |-> 1, attestation |-> attestationOf(wallet)]
          /\ revenue' = IF paymentReceipt.value # <<>>
                        THEN logRevenue(revenue, "x402_attestation", X402_PRICE_USD,
                                        FALSE, 0)
                        ELSE revenue
  /\ tickSkipped' = FALSE
  /\ pnl' = NoPnl
  /\ reply' = NoReply
  /\ scan' = NoScan
  /\ UNCHANGED <<envVars, chainVars, actions, costs, kv, cyc, cyclesStarted, execSeq,
                 providerLog, faults>>

attestationHandler ==
  \E wallet \in RequestWallets, paymentReceipt \in Receipts, rpcFails \in BOOLEAN :
    attestationRequest(wallet, paymentReceipt, rpcFails)

\* ------------------------------------------------------------ specification
Cycle ==
  \/ Tick
  \/ \E b \in Bodies : GatherFails(b)
  \/ \E b \in Bodies : deterministicDecisions(b)
  \/ \E b \in Bodies : ExecuteStart(b)
  \/ \E b \in Bodies : SendApproval(b)
  \/ \E b \in Bodies : ApprovalReceipt(b)
  \/ \E b \in Bodies : ExecuteThrows(b)
  \/ \E b \in Bodies : ExecuteSubmit(b)
  \/ \E b \in Bodies : ExecuteWarning(b)
  \/ \E b \in Bodies : RereadPosition(b)
  \/ \E b \in Bodies : RereadThrows(b)
  \/ \E b \in Bodies : RulesDone(b)
  \/ \E b \in Bodies : llmSkipped(b)
  \/ \E b \in Bodies : llmDecision(b)
  \/ \E b \in Bodies : Finish(b)
  \/ \E b \in Bodies : Return(b)

Chain == Mine \/ Accrue \/ Advance

Next == Cycle \/ Chain

Spec == Init /\ [][Next]_vars

\* one step of the body b, the timer tick that starts it apart
bodyStep(b) ==
  \/ GatherFails(b) \/ deterministicDecisions(b)
  \/ ExecuteStart(b) \/ SendApproval(b) \/ ApprovalReceipt(b)
  \/ ExecuteThrows(b) \/ ExecuteSubmit(b) \/ ExecuteWarning(b)
  \/ RereadPosition(b) \/ RereadThrows(b)
  \/ RulesDone(b) \/ llmSkipped(b) \/ llmDecision(b)
  \/ Finish(b) \/ Return(b)

\* every external call answers: an awaited call of a body returns or throws,
\* and an acknowledged transaction is mined
InitLive == Init /\ openaiApiKey /\ liquid = 50 * RAW_PER_USDC

SpecLive ==
  InitLive /\ [][Next]_vars /\ WF_vars(Mine) /\ \A b \in Bodies : WF_vars(bodyStep(b))

\* Error values a rejected call may throw: with a short summary of 13 or of
\* 121 characters; without one and with a Details line of 9 or of 130
\* characters, with "Details:" at the very end, with the detail on the line
\* after "Details:"; with neither and a message of 20 or of 130 characters;
\* and a thrown string.
Errors ==
  {nonceTooLow,
   errorValue(fill("s", 121), TRUE, fill("m", 30), fill("e", 7) \o fill("m", 30)),
   errorValue(<<>>, TRUE,
              fill("m", 30) \o <<"\n">> \o DETAILS \o <<" ">> \o fill("d", 9)
                \o <<"\n">> \o fill("v", 5), fill("e", 7)),
   errorValue(<<>>, TRUE,
              fill("m", 30) \o <<"\n">> \o DETAILS \o <<" ">> \o fill("d", 130)
                \o <<"\n">> \o fill("v", 5), fill("e", 7)),
   errorValue(<<>>, TRUE, fill("m", 30) \o <<"\n">> \o DETAILS, fill("e", 7)),
   errorValue(<<>>, TRUE,
              fill("m", 30) \o <<" ">> \o DETAILS \o <<"\n">> \o fill("n", 5),
              fill("e", 7)),
   errorValue(<<>>, TRUE, fill("m", 20), fill("e", 7) \o fill("m", 20)),
   errorValue(<<>>, TRUE, fill("m", 130), fill("e", 7) \o fill("m", 130)),
   errorValue(<<>>, FALSE, <<>>, fill("t", 7))}

\* the loop on a node that rejects with any of the error values
InitErrors ==
  /\ now = 0
  /\ openaiApiKey = FALSE
  /\ configIdleUsdcThreshold = idleUsdcThreshold
  /\ configBuilderCode = builderCode
  /\ nodeError \in Errors
  /\ liquid = 50 * RAW_PER_USDC
  /\ aavePos = 0
  /\ eth = lowEthThreshold + 2 * GasPerTx
  /\ stakes = initialStakes
  /\ pending = <<>>
  /\ allowance \in {0, approveAmount}
  /\ totalInterest = 0
  /\ accruals = 0
  /\ actions = <<>>
  /\ revenue = <<>>
  /\ costs = <<>>
  /\ kv = [last_aave_position |-> NoValue, last_llm_call |-> NoValue]
  /\ cyc = [b \in Bodies |-> idleBody]
  /\ cyclesStarted = 0
  /\ tickSkipped = FALSE
  /\ execSeq = 0
  /\ providerLog = <<>>
  /\ faults = 0
  /\ pnl = NoPnl
  /\ reply = NoReply
  /\ scan = NoScan
  /\ res = NoRes

NextErrors ==
  \/ Tick
  \/ \E b \in Bodies : deterministicDecisions(b)
  \/ \E b \in Bodies : ExecuteStart(b)
  \/ \E b \in Bodies : SendApproval(b)
  \/ \E b \in Bodies : ApprovalReceipt(b)
  \/ \E b \in Bodies : ExecuteThrows(b)
  \/ \E b \in Bodies : ExecuteSubmit(b)
  \/ \E b \in Bodies : RereadPosition(b)
  \/ \E b \in Bodies : RereadThrows(b)
  \/ \E b \in Bodies : RulesDone(b)
  \/ \E b \in Bodies : llmSkipped(b)
  \/ \E b \in Bodies : Finish(b)
  \/ \E b \in Bodies : Return(b)
  \/ Mine

SpecErrors == InitErrors /\ [][NextErrors]_vars

\* a stake record of u1
stakeOf(stakeId, amount, durationDays, successfulDays, claimed) ==
  [user |-> "u1", stakeId |-> stakeId, amount |-> amount, startTimestamp |-> 0,
   durationDays |-> durationDays, successfulDays |-> successfulDays,
   claimed |-> claimed, isUSDC |-> TRUE]

\* Stake histories of u1 on chain: none; 7 of 10 days; 15 of 30; 8 of 5 (more
\* successful days than days); a stake of no days; 10 of 10 with 20 of 40;
\* 60 of 60; one record zeroed by settlement; two zeroed records.
StakeHistories ==
  {<<>>,
   <<stakeOf(0, 100 * RAW_PER_USDC, 10, 7, FALSE)>>,
   <<stakeOf(0, 100 * RAW_PER_USDC, 30, 15, FALSE)>>,
   <<stakeOf(0, 100 * RAW_PER_USDC, 5, 8, FALSE)>>,
   <<stakeOf(0, 100 * RAW_PER_USDC, 0, 0, FALSE)>>,
   <<stakeOf(0, 100 * RAW_PER_USDC, 10, 10, TRUE),
     stakeOf(1, 100 * RAW_PER_USDC, 40, 20, FALSE)>>,
   <<stakeOf(0, 100 * RAW_PER_USDC, 60, 60, FALSE)>>,
   <<stakeOf(0, 0, 0, 0, FALSE)>>,
   <<stakeOf(0, 0, 0, 0, FALSE), stakeOf(1, 0, 0, 0, FALSE)>>}

\* the row execute() of a resolve Decision writes for a stake of the user
\* that had the given number of failed days and forfeited 40% of 100 USDC
resolvedRow(tbl, user, stakeId, failedDays) ==
  logAction(tbl, "resolve_expired", resolvedDescription(user, stakeId, failedDays),
            IF failedDays > 0 THEN 40 * LEDGER_PER_USDC ELSE 0, TRUE, TRUE, 0)

\* Logs of resolved stakes: none; one stake of u1 with 3 failed days; one
\* with none; two with 10 each; one of u2 only; 12 and 0 failed days; a
\* rejected resolution of u1 followed by a resolved stake of u2.
ResolvedLogs ==
  {<<>>,
   resolvedRow(<<>>, "u1", 0, 3),
   resolvedRow(<<>>, "u1", 0, 0),
   resolvedRow(resolvedRow(<<>>, "u1", 0, 10), "u1", 1, 10),
   resolvedRow(<<>>, "u2", 1, 4),
   resolvedRow(resolvedRow(<<>>, "u1", 0, 12), "u1", 1, 0),
   resolvedRow(logAction(<<>>, "resolve_expired", failureDescription(nonceTooLow),
                         0, FALSE, FALSE, 0), "u2", 1, 4)}

\* the endpoint over the stake histories and the logs of resolved stakes
InitAttest ==
  /\ now = 0
  /\ openaiApiKey = FALSE
  /\ configIdleUsdcThreshold = idleUsdcThreshold
  /\ configBuilderCode = builderCode
  /\ nodeError = nonceTooLow
  /\ liquid = 50 * RAW_PER_USDC
  /\ aavePos = 0
  /\ eth = lowEthThreshold + 2 * GasPerTx
  /\ \E h \in StakeHistories : stakes = [initialStakes EXCEPT !["u1"] = h]
  /\ pending = <<>>
  /\ allowance = 0
  /\ totalInterest = 0
  /\ accruals = 0
  /\ actions \in ResolvedLogs
  /\ revenue = <<>>
  /\ costs = <<>>
  /\ kv = [last_aave_position |-> NoValue, last_llm_call |-> NoValue]
  /\ cyc = [b \in Bodies |-> idleBody]
  /\ cyclesStarted = 0
  /\ tickSkipped = FALSE
  /\ execSeq = 0
  /\ providerLog = <<>>
  /\ faults = 0
  /\ pnl = NoPnl
  /\ reply = NoReply
  /\ scan = NoScan
  /\ res = NoRes

NextAttest == attestationHandler

SpecAttest == InitAttest /\ [][NextAttest]_vars

\* an address that never staked and has its first ten characters ("0x" and
\* eight digits) in common with the address of u1
neighbourOf(user) == slice(addressOf(user), 10) \o fill("c", 32)

\* the wallets asked about: the two stakers, the neighbour of u1 and an
\* address that has nothing in common with either
LookupWallets ==
  {addressOf("u1"), addressOf("u2"), neighbourOf("u1"), <<"0", "x">> \o fill("c", 40)}

NextLookup ==
  \E wallet \in LookupWallets, paymentReceipt \in Receipts, rpcFails \in BOOLEAN :
    attestationRequest(wallet, paymentReceipt, rpcFails)

\* the endpoint asked about wallets that share the beginning of their address
SpecLookup == InitAttest /\ [][NextLookup]_vars

\* the loop with the timer firing at any moment
NextTimer == Next \/ TickSkipped

SpecTimer == Init /\ [][NextTimer]_vars

\* the loop with the P&L endpoint served concurrently
NextApi == Next \/ GetPnl

SpecApi == Init /\ [][NextApi]_vars

\* The loop, its advisory module not configured, with the dashboard routes
\* and the paid endpoint served at any moment between two of its steps.
InitServe ==
  /\ now = 12 * loopIntervalMs
  /\ openaiApiKey = FALSE
  /\ configIdleUsdcThreshold = idleUsdcThreshold
  /\ configBuilderCode = builderCode
  /\ nodeError = nonceTooLow
  /\ liquid = 50 * RAW_PER_USDC
  /\ aavePos = 0
  /\ eth = lowEthThreshold + 2 * GasPerTx
  /\ stakes = initialStakes
  /\ pending = <<>>
  /\ allowance = 0
  /\ totalInterest = 0
  /\ accruals = 0
  /\ actions = <<>>
  /\ revenue = <<>>
  /\ costs = <<>>
  /\ kv = [last_aave_position |-> NoValue, last_llm_call |-> NoValue]
  /\ cyc = [b \in Bodies |-> idleBody]
  /\ cyclesStarted = 0
  /\ tickSkipped = FALSE
  /\ execSeq = 0
  /\ providerLog = <<>>
  /\ faults = 0
  /\ pnl = NoPnl
  /\ reply = NoReply
  /\ scan = NoScan
  /\ res = NoRes

ServeWallets == {addressOf("u1"), <<"0", "x", "Z", "Z", "Z">>}
ServeReceipts == {r \in Receipts : r.present = (r.value # <<>>)}
ServeQueries == {q \in LimitQueries : q.value \in {<<>>, <<"-", "1">>, <<"2", "x">>}}

Dashboard ==
  \/ GetHealth
  \/ GetStatus
  \/ GetBalances
  \/ GetRevenue
  \/ GetCosts
  \/ GetPnl
  \/ \E query \in ServeQueries : actionsRequest(query)

\* requests of the paid endpoint, until one of them has been booked
PaidQuery ==
  \E wallet \in ServeWallets, paymentReceipt \in ServeReceipts, rpcFails \in BOOLEAN :
    /\ x402Rows = <<>>
    /\ attestationRequest(wallet, paymentReceipt, rpcFails)

NextServe ==
  \/ Tick
  \/ \E b \in Bodies : GatherFails(b)
  \/ \E b \in Bodies : deterministicDecisions(b)
  \/ \E b \in Bodies : ExecuteStart(b)
  \/ \E b \in Bodies : SendApproval(b)
  \/ \E b \in Bodies : ApprovalReceipt(b)
  \/ \E b \in Bodies : ExecuteThrows(b)
  \/ \E b \in Bodies : ExecuteSubmit(b)
  \/ \E b \in Bodies : ExecuteWarning(b)
  \/ \E b \in Bodies : RereadPosition(b)
  \/ \E b \in Bodies : RereadThrows(b)
  \/ \E b \in Bodies : RulesDone(b)
  \/ \E b \in Bodies : llmSkipped(b)
  \/ \E b \in Bodies : Finish(b)
  \/ \E b \in Bodies : Return(b)
  \/ Mine
  \/ Dashboard
  \/ PaidQuery

SpecServe == InitServe /\ [][NextServe]_vars

\* The same loop with paid queries of a staker answered at any moment between
\* two of its steps: the two writers of the ledger.
BookedQuery ==
  \E paymentReceipt \in ServeReceipts :
    attestationRequest(addressOf("u1"), paymentReceipt, FALSE)

NextBooks ==
  \/ Tick
  \/ \E b \in Bodies : GatherFails(b)
  \/ \E b \in Bodies : deterministicDecisions(b)
  \/ \E b \in Bodies : ExecuteStart(b)
  \/ \E b \in Bodies : SendApproval(b)
  \/ \E b \in Bodies : ApprovalReceipt(b)
  \/ \E b \in Bodies : ExecuteThrows(b)
  \/ \E b \in Bodies : ExecuteSubmit(b)
  \/ \E b \in Bodies : ExecuteWarning(b)
  \/ \E b \in Bodies : RereadPosition(b)
  \/ \E b \in Bodies : RereadThrows(b)
  \/ \E b \in Bodies : RulesDone(b)
  \/ \E b \in Bodies : llmSkipped(b)
  \/ \E b \in Bodies : Finish(b)
  \/ \E b \in Bodies : Return(b)
  \/ Mine
  \/ BookedQuery

SpecBooks == InitServe /\ [][NextBooks]_vars

\* The recent-actions route over action logs of every length up to MaxRows.
MaxRows == 52

\* a log of n rows; the ghost column numbers them in the order of the appends
logOfSize(n) ==
  [i \in 1 .. n |-> [type |-> "warning", description |-> <<>>, amount_usdc |-> 0,
                     tx |-> FALSE, success |-> TRUE, eid |-> i]]

InitPage ==
  /\ now = 0
  /\ openaiApiKey = FALSE
  /\ configIdleUsdcThreshold = idleUsdcThreshold
  /\ configBuilderCode = builderCode
  /\ nodeError = nonceTooLow
  /\ liquid = 50 * RAW_PER_USDC
  /\ aavePos = 0
  /\ eth = lowEthThreshold + 2 * GasPerTx
  /\ stakes = initialStakes
  /\ pending = <<>>
  /\ allowance = 0
  /\ totalInterest = 0
  /\ accruals = 0
  /\ \E n \in 0 .. MaxRows : actions = logOfSize(n)
  /\ revenue = <<>>
  /\ costs = <<>>
  /\ kv = [last_aave_position |-> NoValue, last_llm_call |-> NoValue]
  /\ cyc = [b \in Bodies |-> idleBody]
  /\ cyclesStarted = 0
  /\ tickSkipped = FALSE
  /\ execSeq = 0
  /\ providerLog = <<>>
  /\ faults = 0
  /\ pnl = NoPnl
  /\ reply = NoReply
  /\ scan = NoScan
  /\ res = NoRes

NextPage == GetActions

SpecPage == InitPage /\ [][NextPage]_vars

\* Rule 2 over block windows whose events name a staker that is not on the
\* list, u3, with an expired stake of its own.
ScanLogs ==
  {<<>>, <<"u1">>, <<"u3">>, <<"u3", "u3">>, <<"u3", "u1", "u3">>, <<"u2", "u3">>,
   <<"u3", "u2", "u1">>}

scanStakes ==
  [u \in Users \cup {"u3"} |->
     IF u = "u3"
     THEN << [user |-> "u3", stakeId |-> 0, amount |-> 20 * RAW_PER_USDC,
              startTimestamp |-> 0, durationDays |-> 10, successfulDays |-> 5,
              claimed |-> FALSE, isUSDC |-> TRUE] >>
     ELSE initialStakes[u]]

InitScan ==
  /\ now \in Times
  /\ openaiApiKey = FALSE
  /\ configIdleUsdcThreshold = idleUsdcThreshold
  /\ configBuilderCode = builderCode
  /\ nodeError = nonceTooLow
  /\ liquid \in {RAW_PER_USDC \div 2, 50 * RAW_PER_USDC}
  /\ aavePos = 0
  /\ eth = lowEthThreshold + 2 * GasPerTx
  /\ stakes = scanStakes
  /\ pending = <<>>
  /\ allowance = 0
  /\ totalInterest = 0
  /\ accruals = 0
  /\ actions = <<>>
  /\ revenue = <<>>
  /\ costs = <<>>
  /\ kv = [last_aave_position |-> NoValue, last_llm_call |-> NoValue]
  /\ cyc = [b \in Bodies |-> idleBody]
  /\ cyclesStarted = 0
  /\ tickSkipped = FALSE
  /\ execSeq = 0
  /\ providerLog = <<>>
  /\ faults = 0
  /\ pnl = NoPnl
  /\ reply = NoReply
  /\ scan = NoScan
  /\ res = NoRes

NextScan == Tick \/ \E b \in Bodies : \E events \in ScanLogs : rulesStep(b, events)

SpecScan == InitScan /\ [][NextScan]_vars

\* The loop past the end of the stakes, its advisory module not configured,
\* on a chain where an acknowledged transaction may revert when it is mined.
NextSettle ==
  \/ Tick
  \/ \E b \in Bodies : GatherFails(b)
  \/ \E b \in Bodies : deterministicDecisions(b)
  \/ \E b \in Bodies : ExecuteStart(b)
  \/ \E b \in Bodies : SendApproval(b)
  \/ \E b \in Bodies : ApprovalReceipt(b)
  \/ \E b \in Bodies : ExecuteThrows(b)
  \/ \E b \in Bodies : ExecuteSubmit(b)
  \/ \E b \in Bodies : ExecuteWarning(b)
  \/ \E b \in Bodies : RereadPosition(b)
  \/ \E b \in Bodies : RereadThrows(b)
  \/ \E b \in Bodies : RulesDone(b)
  \/ \E b \in Bodies : llmSkipped(b)
  \/ \E b \in Bodies : Finish(b)
  \/ \E b \in Bodies : Return(b)
  \/ Mine
  \/ Revert

SpecSettle == InitServe /\ [][NextSettle]_vars

\* The loop with an advisory module that may ask for a deposit of 10 USDC,
\* which is more than Rule 1 leaves liquid and less than the balance the cycle
\* starts with.
BudgetResponses ==
  {[kind |-> "json", action |-> "deposit", amountType |-> "number",
    amount |-> 10 * LEDGER_PER_USDC],
   [kind |-> "json", action |-> "deposit", amountType |-> "number",
    amount |-> 100 * LEDGER_PER_USDC],
   [kind |-> "json", action |-> "none", amountType |-> "number", amount |-> 0],
   [NoResponse EXCEPT !.kind = "throw"]}

NextBudget ==
  \/ Tick
  \/ \E b \in Bodies : GatherFails(b)
  \/ \E b \in Bodies : deterministicDecisions(b)
  \/ \E b \in Bodies : ExecuteStart(b)
  \/ \E b \in Bodies : SendApproval(b)
  \/ \E b \in Bodies : ApprovalReceipt(b)
  \/ \E b \in Bodies : ExecuteThrows(b)
  \/ \E b \in Bodies : ExecuteSubmit(b)
  \/ \E b \in Bodies : RereadPosition(b)
  \/ \E b \in Bodies : RereadThrows(b)
  \/ \E b \in Bodies : RulesDone(b)
  \/ \E b \in Bodies : llmSkipped(b)
  \/ \E b \in Bodies : \E resp \in BudgetResponses : llmCall(b, resp)
  \/ \E b \in Bodies : Finish(b)
  \/ \E b \in Bodies : Return(b)
  \/ Mine

SpecBudget == InitLive /\ [][NextBudget]_vars

\* ---------------------------------------------------- the rules as functions
\* The snapshots deterministicDecisions() may be handed: balances around the
\* thresholds, a cursor that is unset or set, a position at, below and above
\* the cursor by amounts around the yield window.
RuleBalances ==
  {0, 1, 2, 3, 4,
   idleUsdcThreshold - 1, idleUsdcThreshold, idleUsdcThreshold + 1, 50 * RAW_PER_USDC}

\* values of IDLE_USDC_THRESHOLD: the default, and small even and odd ones
RuleThresholds == {0, 1, 2, 3, idleUsdcThreshold}

RuleDeltas == {0 - 1, 0, 1, 2, RAW_PER_USDC - 1, RAW_PER_USDC, RAW_PER_USDC + 1}

\* Date.now() at the stake end (3000 s), within its last second, and past it
RuleTimes == Times \cup {10 * loopIntervalMs + 999, 10 * loopIntervalMs + 1000}

RuleEth == {lowEthThreshold - 1, lowEthThreshold, lowEthThreshold + 2 * GasPerTx}

InitRules ==
  /\ now \in RuleTimes
  /\ openaiApiKey = FALSE
  /\ configIdleUsdcThreshold \in RuleThresholds
  /\ configBuilderCode = builderCode
  /\ nodeError = nonceTooLow
  /\ liquid \in RuleBalances
  /\ eth \in RuleEth
  /\ \E last \in {NoValue, 0, 5 * RAW_PER_USDC} :
       /\ kv = [last_aave_position |-> last, last_llm_call |-> NoValue]
       /\ IF last = NoValue
          THEN aavePos \in {0, 5 * RAW_PER_USDC} /\ totalInterest = 0
          ELSE \E d \in RuleDeltas :
                 /\ last + d >= 0
                 /\ aavePos = last + d
                 \* a rise since the cursor was written is interest
                 /\ totalInterest = IF d > 0 THEN d ELSE 0
  /\ stakes = initialStakes
  /\ pending = <<>>
  /\ allowance = 0
  /\ accruals = 0
  /\ actions = <<>>
  /\ revenue = <<>>
  /\ costs = <<>>
  /\ cyc = [b \in Bodies |-> idleBody]
  /\ cyclesStarted = 0
  /\ tickSkipped = FALSE
  /\ execSeq = 0
  /\ providerLog = <<>>
  /\ faults = 0
  /\ pnl = NoPnl
  /\ reply = NoReply
  /\ scan = NoScan
  /\ res = NoRes

NextRules == Tick \/ \E b \in Bodies : deterministicDecisions(b)

SpecRules == InitRules /\ [][NextRules]_vars

\* ------------------------------------------------- an agent short of gas
\* The agent starts with its native balance just below the alert threshold,
\* with or without an earlier approval of the lending pool.
InitLowGas ==
  /\ now = 0
  /\ openaiApiKey \in BOOLEAN
  /\ configIdleUsdcThreshold = idleUsdcThreshold
  /\ configBuilderCode = builderCode
  /\ nodeError = nonceTooLow
  /\ liquid = 50 * RAW_PER_USDC
  /\ aavePos = 0
  /\ eth = lowEthThreshold - 1
  /\ stakes = initialStakes
  /\ pending = <<>>
  /\ allowance \in {0, approveAmount}
  /\ totalInterest = 0
  /\ accruals = 0
  /\ actions = <<>>
  /\ revenue = <<>>
  /\ costs = <<>>
  /\ kv = [last_aave_position |-> NoValue, last_llm_call |-> NoValue]
  /\ cyc = [b \in Bodies |-> idleBody]
  /\ cyclesStarted = 0
  /\ tickSkipped = FALSE
  /\ execSeq = 0
  /\ providerLog = <<>>
  /\ faults = 0
  /\ pnl = NoPnl
  /\ reply = NoReply
  /\ scan = NoScan
  /\ res = NoRes

SpecLowGas == InitLowGas /\ [][Next]_vars

\* ------------------------------------------------ the suffix as a function
\* values of BUILDER_CODE: empty, one byte, the default, and the two lengths
\* around the largest a length byte can hold
BuilderCodes ==
  {<<>>, <<112>>, builderCode,
   [i \in 1 .. MaxCodeBytes - 1 |-> 97], [i \in 1 .. MaxCodeBytes |-> 97]}

\* calldata handed to sendTransaction: none ("0x"), and the contract calls
Calldatas == {<<>>} \cup {encodeFunctionData(k) : k \in {"supply", "withdraw", "resolve"}}

InitSuffix ==
  /\ now = 0
  /\ openaiApiKey = FALSE
  /\ configIdleUsdcThreshold = idleUsdcThreshold
  /\ configBuilderCode \in BuilderCodes
  /\ nodeError = nonceTooLow
  /\ liquid \in {RAW_PER_USDC \div 2, 50 * RAW_PER_USDC}
  /\ aavePos = 0
  /\ eth = lowEthThreshold + 2 * GasPerTx
  /\ stakes = initialStakes
  /\ pending = <<>>
  /\ allowance \in {0, approveAmount}
  /\ totalInterest = 0
  /\ accruals = 0
  /\ actions = <<>>
  /\ revenue = <<>>
  /\ costs = <<>>
  /\ kv = [last_aave_position |-> NoValue, last_llm_call |-> NoValue]
  /\ cyc = [b \in Bodies |-> idleBody]
  /\ cyclesStarted = 0
  /\ tickSkipped = FALSE
  /\ execSeq = 0
  /\ providerLog = <<>>
  /\ faults = 0
  /\ pnl = NoPnl
  /\ reply = NoReply
  /\ scan = NoScan
  /\ res = NoRes

\* the cycle as far as its submissions, with every call succeeding
NextSuffix ==
  \/ Tick
  \/ \E b \in Bodies : deterministicDecisions(b)
  \/ \E b \in Bodies : ExecuteStart(b)
  \/ \E b \in Bodies : SendApproval(b)
  \/ \E b \in Bodies : ApprovalReceipt(b)
  \/ \E b \in Bodies : ExecuteSubmit(b)
  \/ \E b \in Bodies : RereadPosition(b)
  \/ Mine
  \/ Advance

SpecSuffix == InitSuffix /\ [][NextSuffix]_vars

\* ------------------------------------------------------------------ claims
yieldRows == {i \in 1 .. Len(revenue) : revenue[i].source = "aave_yield"}

\* C1: principal is never counted as yield.  While the lending pool has
\* credited no interest, every rise of the position is a deposit becoming
\* visible, so the revenue table holds no aave_yield row.
C1_PrincipalNeverYield == totalInterest = 0 => yieldRows = {}

\* the resolve_expired Decisions a body has just been handed by the rules
resolveTargets(q) == {i \in 1 .. Len(q) : q[i].action = "resolve_expired"}

targetOf(d) == stakes[d.user][d.stakeId + 1]

\* the stake's period, plus the buffer, is over at nowMs
expired(s, nowMs) ==
  nowMs \div 1000 > s.startTimestamp + s.durationDays * SECONDS_PER_DAY + RESOLUTION_BUFFER

\* every slot that holds a stake (amount > 0) past its end is claimed
allExpiredSettled ==
  \A u \in Users : \A i \in 1 .. Len(stakes[u]) :
    (stakes[u][i].amount > 0 /\ expired(stakes[u][i], now)) => stakes[u][i].claimed

\* C2: idempotent resolution.  Whenever the rules produce their Decisions, no
\* resolve_expired Decision targets a stake that the registry shows as claimed
\* or with amount 0; and on a snapshot in which every expired stake is already
\* claimed the rules produce no resolve_expired Decision at all.
C2_NoSettledTarget ==
  [][\A b \in Bodies :
       (cyc[b].pc = "decide" /\ cyc'[b].pc = "exec") =>
         LET q == cyc'[b].queue IN
         /\ \A i \in resolveTargets(q) :
              targetOf(q[i]).amount > 0 /\ ~targetOf(q[i]).claimed
         /\ allExpiredSettled => resolveTargets(q) = {}]_vars

\* C2 witness: a second cycle has evaluated the rules, with every read
\* succeeding, after both expired open stakes were resolved and mined; it was
\* handed no resolve_expired Decision.
C2_Witness ==
  \E b \in Bodies :
    /\ cyc[b].pc = "exec" /\ cyc[b].phase = "rules" /\ cyc[b].attempted = 0
    /\ cyclesStarted = 2 /\ faults = 0
    /\ allExpiredSettled
    /\ stakes["u1"][1].claimed /\ stakes["u2"][2].claimed
    /\ \E i \in 1 .. Len(actions) : actions[i].type = "resolve_expired"
    /\ resolveTargets(cyc[b].queue) = {}

\* C3: cycle bodies never overlap.  At most one body of runDecisionCycle is
\* running at any time, although the timer may fire while one is running.
C3_NoOverlap == Cardinality(running) <= 1

\* C3 witness: the timer fired while a body was running and was skipped.
C3_Witness == tickSkipped /\ running # {}

\* the positions of a body inside the loop over its Decisions
LoopPcs == {"exec", "approve", "approving", "submit", "reread"}

\* C4: failure isolation.  A body that is executing the Decisions of the
\* rules keeps nRules - attempted Decisions queued whatever throws, and leaves
\* the loop only for the advisory step, with every Decision attempted.
C4_FailureIsolation ==
  [][\A b \in Bodies :
       LET c == cyc[b]
           n == cyc'[b]
       IN (c.pc \in LoopPcs /\ c.phase = "rules") =>
            \/ n = c
            \/ /\ n.pc \in LoopPcs /\ n.phase = "rules"
               /\ n.nRules = c.nRules
               /\ n.attempted \in {c.attempted, c.attempted + 1}
               /\ c.failed \subseteq n.failed
               /\ Len(n.queue) = n.nRules - n.attempted
            \/ /\ n.pc = "llm"
               /\ c.attempted = c.nRules /\ n.attempted = c.nRules]_vars

\* C4 witness: a cycle has finished with the advisory step run, after two
\* Decisions of the rules threw and a later one was still attempted.
C4_Witness ==
  \E b \in Bodies :
    /\ cyc[b].pc = "done" /\ cyc[b].llmRan
    /\ openaiApiKey /\ providerLog # <<>>
    /\ \E i, j \in cyc[b].failed : i < j /\ j < cyc[b].nRules
    /\ cyc[b].attempted >= cyc[b].nRules

rowsOf(e) == {i \in 1 .. Len(actions) : actions[i].eid = e}

\* C5: exactly one ActionRecord per attempted Decision execution.
C5_OneRowPerExecution ==
  \A e \in 1 .. execSeq : Cardinality(rowsOf(e)) = 1

\* C6: a failed Decision execution contributes no revenue.  No RevenueEvent
\* carries the execution of an ActionRecord with success = false.
C6_FailedNoRevenue ==
  \A i \in 1 .. Len(actions) :
    ~actions[i].success =>
      \A j \in 1 .. Len(revenue) : revenue[j].eid # actions[i].eid

\* C6 witness: the resolution of the forfeiting stake failed.
C6_Witness ==
  \E i \in 1 .. Len(actions) :
    /\ actions[i].type = "resolve_expired" /\ ~actions[i].success
    /\ \E q \in 1 .. Len(stakes["u1"]) :
         resolveDecision(stakes["u1"][q]).treasuryRevenue > 0

\* the sum of the first n rows of a table
RECURSIVE RowSum(_, _)
RowSum(tbl, n) == IF n = 0 THEN 0 ELSE RowSum(tbl, n - 1) + tbl[n].amount_usdc

\* C7: the P&L endpoint reports the sum of the revenue rows, the sum of the
\* cost rows and their difference as the profit, whatever the actions table
\* holds.
C7_ProfitIsLedger ==
  pnl.sent =>
    /\ pnl.revenue = RowSum(revenue, Len(revenue))
    /\ pnl.costs = RowSum(costs, Len(costs))
    /\ pnl.profit = RowSum(revenue, Len(revenue)) - RowSum(costs, Len(costs))

\* C7 witness: a response is sent while the ledger holds revenue, costs, a
\* failed ActionRecord and a successful one with an amount.
C7_Witness ==
  /\ pnl.sent
  /\ revenue # <<>> /\ costs # <<>>
  /\ \E i \in 1 .. Len(actions) : ~actions[i].success
  /\ \E i \in 1 .. Len(actions) : actions[i].success /\ actions[i].amount_usdc > 0

llmCostRows == {i \in 1 .. Len(costs) : costs[i].category = "llm"}

completedCalls == {i \in 1 .. Len(providerLog) : providerLog[i].completed}

\* C8: advisory rate limit.  An invocation at now with a stored timestamp t
\* and now - t < llmCallIntervalMs returns no Decision, calls no provider,
\* appends no cost and leaves t unchanged; and after a completed call at t no
\* provider call is made before t + llmCallIntervalMs, so one window holds at
\* most one provider call and one model-inference cost.
C8_RateLimit ==
  /\ [](\A i \in completedCalls : \A j \in 1 .. Len(providerLog) :
          i < j => providerLog[j].at - providerLog[i].at >= llmCallIntervalMs)
  /\ [][\A b \in Bodies :
          (/\ cyc[b].pc = "llm" /\ cyc'[b].pc # "llm"
           /\ kv.last_llm_call # NoValue
           /\ now - kv.last_llm_call < llmCallIntervalMs) =>
            /\ cyc'[b].pc = "exec" /\ cyc'[b].queue = <<>>
            /\ providerLog' = providerLog
            /\ costs' = costs
            /\ kv'.last_llm_call = kv.last_llm_call]_vars

\* C8 witness: a second invocation inside the window of the first call has
\* returned; the provider was called once and one cost was booked.
C8_Witness ==
  \E b \in Bodies :
    /\ openaiApiKey
    /\ cyc[b].pc = "exec" /\ cyc[b].phase = "llm" /\ cyc[b].llmRan
    /\ kv.last_llm_call # NoValue
    /\ cyc[b].llmNow > kv.last_llm_call
    /\ cyc[b].llmNow - kv.last_llm_call < llmCallIntervalMs
    /\ Len(providerLog) = 1 /\ Cardinality(llmCostRows) = 1

\* C9: every provider call that completes appends exactly one model-inference
\* cost of the fixed size, whatever the reply holds.
C9_CostPerCompletedCall ==
  /\ Cardinality(llmCostRows) = Cardinality(completedCalls)
  /\ \A i \in llmCostRows : costs[i].amount_usdc = LLM_COST_USD

\* C9 witness: a call completed with a reply that gave no Decision, and its
\* cost is booked.
C9_Witness ==
  \E b \in Bodies :
    /\ cyc[b].pc = "exec" /\ cyc[b].phase = "llm" /\ cyc[b].queue = <<>>
    /\ cyc[b].resp.kind \in {"empty", "unparsable", "json"}
    /\ Cardinality(llmCostRows) = 1

\* the conditions of a Decision, read off the reply and the balances
replyAcceptable(r, balance, position) ==
  /\ r.kind = "json"
  /\ r.action \in {"deposit", "withdraw"}
  /\ r.amountType = "number" /\ r.amount > 0
  /\ r.amount \div LedgerPerRaw > 0
  /\ r.action = "deposit" => r.amount \div LedgerPerRaw <= balance
  /\ r.action = "withdraw" => r.amount \div LedgerPerRaw <= position

\* C10: advisory validation.  A completed provider call returns a Decision
\* only for a deposit or withdraw reply whose amount is a number > 0 that,
\* in raw units, is > 0 and within the liquid balance (deposit) or the lending
\* position (withdraw); every other reply returns none and the call writes no
\* ActionRecord.
C10_Validation ==
  [][\A b \in Bodies :
       (cyc[b].pc = "llm" /\ cyc'[b].pc = "exec" /\ cyc'[b].resp.kind # "none") =>
         /\ actions' = actions
         /\ cyc'[b].queue # <<>> => replyAcceptable(cyc'[b].resp, liquid, aavePos)
         /\ ~replyAcceptable(cyc'[b].resp, liquid, aavePos) => cyc'[b].queue = <<>>]_vars

\* C10 witness: a reply asking to deposit more than the liquid balance was
\* turned down, and the cycle ended without a new ActionRecord for it.
C10_Witness ==
  \E b \in Bodies :
    /\ cyc[b].pc = "exec" /\ cyc[b].phase = "llm" /\ cyc[b].queue = <<>>
    /\ cyc[b].resp.kind = "json" /\ cyc[b].resp.action = "deposit"
    /\ cyc[b].resp.amountType = "number"
    /\ cyc[b].resp.amount \div LedgerPerRaw > liquid
    /\ \A i \in 1 .. Len(actions) : actions[i].type # "llm_deposit"


\* the agent is at rest and has seen the whole position: no body is running,
\* nothing is waiting to be mined, the cursor equals the position
atRest ==
  /\ \A b \in Bodies : cyc[b].pc = "idle"
  /\ pending = <<>>
  /\ getState("last_aave_position") = aavePos

\* C11: yield accounting is complete and exact.  Whenever the agent is at rest
\* with its cursor on the current position, the aave_yield revenue rows sum to
\* the interest the lending pool has credited: none dropped, no principal.
C11_YieldEqualsInterest ==
  atRest =>
    SumAmounts(SelectSeq(revenue, LAMBDA r : r.source = "aave_yield"))
      = formatUnits6(totalInterest)


\* a step in which body b evaluates the rules on its snapshot
ruleStep(b) == cyc[b].pc = "decide" /\ cyc'[b].pc = "exec"

\* exactly one lending-yield row of the given raw amount is appended
yieldAppended(delta) ==
  revenue' = Append(revenue, [source |-> "aave_yield",
                               amount_usdc |-> delta * LedgerPerRaw,
                               tx |-> FALSE, eid |-> 0])

\* C12, as stated: the yield window is (epsilon, 1.0], closed at 1.0.
C12_WindowClosedAtCap ==
  [][\A b \in Bodies : ruleStep(b) =>
       LET last == kv.last_aave_position
           delta == aavePos - last
       IN IF last # NoValue /\ delta > 1 /\ delta <= RAW_PER_USDC
          THEN yieldAppended(delta)
          ELSE revenue' = revenue]_vars

\* C12, amended: when the rules run, a lending-yield row of amount delta is
\* appended if and only if a previous position is stored and delta lies in
\* the open interval (epsilon, 1.0): a delta of exactly 1.0 and a delta of
\* exactly epsilon are not recorded; otherwise nothing is appended.
C12_WindowOpenAtCap ==
  [][\A b \in Bodies : ruleStep(b) =>
       LET last == kv.last_aave_position
           delta == aavePos - last
       IN IF last # NoValue /\ delta > 1 /\ delta < RAW_PER_USDC
          THEN yieldAppended(delta)
          ELSE revenue' = revenue]_vars

\* the rules have run on a rise of exactly 1.0 and recorded nothing
C12_Witness ==
  \E b \in Bodies :
    /\ cyc[b].pc = "exec"
    /\ totalInterest = RAW_PER_USDC
    /\ getState("last_aave_position") = 6 * RAW_PER_USDC
    /\ revenue = <<>>


\* a step in which body b completes its current deposit or withdraw Decision
\* without a failure
moveCompletes(b) ==
  /\ cyc[b].pc \in LoopPcs
  /\ cyc[b].queue # <<>>
  /\ Head(cyc[b].queue).action \in PositionActions
  /\ cyc'[b].attempted = cyc[b].attempted + 1
  /\ cyc'[b].failed = cyc[b].failed

\* the step writes the position it reads into the cursor
cursorWritten == kv'.last_aave_position = aavePos

suppliesOf(q) == SelectSeq(q, LAMBDA d : d.action = "aave_supply")

forfeitureOf(s) ==
  IF s.isUSDC /\ s.durationDays - s.successfulDays > 0
  THEN (s.amount \div 10) * 4 * LedgerPerRaw
  ELSE 0

\* a step in which body b completes a resolution without a failure
resolutionSucceeds(b) ==
  /\ cyc[b].pc = "submit"
  /\ Head(cyc[b].queue).action = "resolve_expired"
  /\ cyc'[b].pc = "exec"
  /\ cyc'[b].failed = cyc[b].failed

slashRows(tbl) == SelectSeq(tbl, LAMBDA r : r.source = "treasury_slash")

\* C15: forfeiture accounting.  A successful resolution appends one successful
\* ActionRecord and, iff the forfeiture of its stake is > 0, one treasury_slash
\* RevenueEvent of that amount (40 for the stake of 100 with 3 failed days);
\* no other step adds a treasury_slash row, none has amount 0, and the
\* resolution of a native-asset stake adds none.
C15_Forfeiture ==
  [][/\ \A b \in Bodies : resolutionSucceeds(b) =>
          LET d == Head(cyc[b].queue)
              f == forfeitureOf(stakes[d.user][d.stakeId + 1])
          IN /\ Len(actions') = Len(actions) + 1
             /\ SubSeq(actions', 1, Len(actions)) = actions
             /\ actions'[Len(actions')].success
             /\ actions'[Len(actions')].type = "resolve_expired"
             /\ actions'[Len(actions')].amount_usdc = f
             /\ IF f > 0
                THEN revenue' = Append(revenue, [source |-> "treasury_slash",
                                                 amount_usdc |-> f, tx |-> TRUE,
                                                 eid |-> execSeq'])
                ELSE revenue' = revenue
     /\ (\A b \in Bodies : ~resolutionSucceeds(b)) =>
          slashRows(revenue') = slashRows(revenue)
     /\ \A i \in 1 .. Len(revenue') :
          revenue'[i].source = "treasury_slash" => revenue'[i].amount_usdc > 0]_vars

\* both open stakes have been resolved successfully: the stable one with 3
\* failed days booked 40, the native one with 4 failed days booked nothing
C15_Witness ==
  /\ Len(SelectSeq(actions, LAMBDA a : a.type = "resolve_expired" /\ a.success)) = 2
  /\ Len(slashRows(revenue)) = 1
  /\ slashRows(revenue)[1].amount_usdc = 40 * LEDGER_PER_USDC


\* not settled, amount > 0, and the clock strictly past start + duration + buffer
due(s) ==
  /\ ~s.claimed
  /\ s.amount > 0
  /\ now \div 1000 > s.startTimestamp + s.durationDays * SECONDS_PER_DAY + RESOLUTION_BUFFER

\* C16: isResolvable(record, now) is true iff the record is not settled, its
\* amount is > 0 and now is strictly past startTime + durationDays *
\* secondsPerDay + resolutionBufferSeconds; when the rules run and every read
\* succeeds, the resolutions they produce are those of exactly these records.
C16_Resolvable ==
  [][\A b \in Bodies : ruleStep(b) =>
       \A u \in Users : \A i \in 1 .. Len(stakes[u]) :
         LET s == stakes[u][i]
             queued == \E k \in 1 .. Len(cyc'[b].queue) :
                         /\ cyc'[b].queue[k].action = "resolve_expired"
                         /\ cyc'[b].queue[k].user = u
                         /\ cyc'[b].queue[k].stakeId = s.stakeId
         IN /\ isResolvable(s, now) <=> due(s)
            /\ queued => due(s)
            /\ (faults' = faults /\ due(s)) => queued]_vars

\* the rules have run, with every read succeeding, within the second in which
\* the open stakes end: no resolution is produced
C16_Witness ==
  \E b \in Bodies :
    /\ cyc[b].pc = "exec" /\ faults = 0
    /\ now = 10 * loopIntervalMs + 999
    /\ \E u \in Users : \E i \in 1 .. Len(stakes[u]) :
         ~stakes[u][i].claimed /\ stakes[u][i].amount > 0
    /\ \A k \in 1 .. Len(cyc[b].queue) : cyc[b].queue[k].action # "resolve_expired"


\* C17: every transaction the agent has submitted, the token approval that
\* precedes a deposit included, carries the attribution suffix at the end of
\* its input data.
C17_EverySubmissionAttributed ==
  \A i \in 1 .. Len(pending) : hasBuilderCode(pending[i].data)


\* out is c, one length byte len, the bytes of s, the schema byte 0x00 and the
\* 16-byte marker 0x00000000000000000000000000008021, read digit by digit
suffixed(out, c, s) ==
  LET n == Len(c)
      m == Len(s)
  IN /\ Len(out) = n + 2 + 2 * m + 2 + 32
     /\ SubSeq(out, 1, n) = c
     /\ 16 * out[n + 1] + out[n + 2] = m
     /\ \A k \in 1 .. m : 16 * out[n + 2 * k + 1] + out[n + 2 * k + 2] = s[k]
     /\ out[n + 2 * m + 3] = 0 /\ out[n + 2 * m + 4] = 0
     /\ \A k \in 1 .. 28 : out[n + 2 * m + 4 + k] = 0
     /\ SubSeq(out, Len(out) - 3, Len(out)) = <<8, 0, 2, 1>>

\* what sendTransaction makes of calldata of its own and of the calldata of
\* the transactions it has submitted, for the configured builder code
suffixOutputs ==
  {<<sendTransaction(c, configBuilderCode), c>> : c \in Calldatas}
  \cup {<<pending[i].data, pending[i].calldata>> :
          i \in {j \in 1 .. Len(pending) : pending[j].kind # "approve"}}

\* C18, as stated: for every calldata and every builder code the input data
\* sent is the calldata, one length byte, the code, 0x00 and the marker, and
\* hasBuilderCode of it is true.
C18_SuffixAnyCode ==
  \A o \in suffixOutputs :
    suffixed(o[1], o[2], configBuilderCode) /\ hasBuilderCode(o[1])

\* C18, amended: the same for every builder code of at most 255 bytes; in
\* every case the calldata is an unmodified prefix and hasBuilderCode is true.
C18_SuffixFormat ==
  \A o \in suffixOutputs :
    /\ Len(configBuilderCode) <= 255 => suffixed(o[1], o[2], configBuilderCode)
    /\ SubSeq(o[1], 1, Len(o[2])) = o[2]
    /\ hasBuilderCode(o[1])

\* a resolution has been submitted under a builder code of 255 bytes: its
\* length byte is 0xff
C18_Witness ==
  /\ Len(configBuilderCode) = 255
  /\ \E i \in 1 .. Len(pending) :
       /\ pending[i].kind = "resolve"
       /\ pending[i].data[3] = 15 /\ pending[i].data[4] = 15


\* C19: sequential writes.  A body never has more than one submission
\* unanswered, and it calls the next submission only when the previous one
\* has been acknowledged or has failed.
C19_SequentialWrites ==
  [][\A b \in Bodies :
       /\ cyc'[b].inflight <= 1
       /\ cyc'[b].inflight > cyc[b].inflight => cyc[b].inflight = 0]_vars

\* a submission is unanswered while a further Decision waits in the queue
C19_Witness ==
  \E b \in Bodies :
    /\ cyc[b].pc = "submit" /\ cyc[b].inflight = 1
    /\ Len(cyc[b].queue) >= 2


\* the place of a Decision in the fixed order: deposit, resolutions by staker
\* and stake, alert
stakerIndex(u) == CHOOSE i \in 1 .. Len(StakerOrder) : StakerOrder[i] = u

orderKey(d) ==
  CASE d.action = "aave_supply" -> 0
    [] d.action = "resolve_expired" -> 100 * stakerIndex(d.user) + d.stakeId
    [] d.action = "low_eth_warning" -> 10000
    [] OTHER -> 20000

inRuleOrder(q) == \A i, j \in 1 .. Len(q) : i < j => orderKey(q[i]) < orderKey(q[j])

\* C20: Decisions are executed in the fixed rule order.  Yield rows are
\* written only while the rules are evaluated, before any Decision executes;
\* the Decisions of the rules wait in the order deposit, resolutions in
\* staker/stake order, alert, and are taken from the front one at a time; the
\* advisory module is called only when all of them have been attempted.
C20_RuleOrder ==
  [][\A b \in Bodies :
       LET c == cyc[b]
           n == cyc'[b]
       IN /\ n.phase = "rules" => inRuleOrder(n.queue)
          /\ (c.pc \in LoopPcs /\ n.queue # c.queue) =>
               (c.queue # <<>> /\ n.queue = Tail(c.queue)
                  /\ n.attempted = c.attempted + 1)
          /\ (c.pc # "idle" /\ yieldRows' # yieldRows) => ruleStep(b)
          /\ (c.pc # "idle" /\ providerLog' # providerLog) =>
               (c.phase = "rules" /\ c.queue = <<>> /\ c.attempted = c.nRules)]_vars

\* the rules have handed over a deposit, two resolutions and the alert, and
\* nothing has executed yet
C20_Witness ==
  \E b \in Bodies :
    /\ cyc[b].pc = "exec" /\ cyc[b].phase = "rules" /\ cyc[b].attempted = 0
    /\ Len(cyc[b].queue) = 4
    /\ cyc[b].queue[1].action = "aave_supply"
    /\ cyc[b].queue[4].action = "low_eth_warning"


alertsOf(q) == SelectSeq(q, LAMBDA d : d.action = "low_eth_warning")

\* a step in which body b executes the alert at the front of its queue
alertExecutes(b) ==
  /\ cyc[b].pc = "exec" /\ cyc[b].queue # <<>>
  /\ Head(cyc[b].queue).action = "low_eth_warning"
  /\ cyc'[b].queue = Tail(cyc[b].queue)

\* C21: low-gas alert.  When the rules run they produce one low_eth_warning
\* Decision iff the native balance is strictly below the threshold; executing
\* it submits no transaction and appends exactly one warning ActionRecord and
\* no RevenueEvent or CostEvent.
C21_LowGasAlert ==
  [][\A b \in Bodies :
       /\ ruleStep(b) =>
            Len(alertsOf(cyc'[b].queue)) = (IF eth < lowEthThreshold THEN 1 ELSE 0)
       /\ alertExecutes(b) =>
            /\ pending' = pending
            /\ Len(actions') = Len(actions) + 1
            /\ SubSeq(actions', 1, Len(actions)) = actions
            /\ actions'[Len(actions')].type = "warning"
            /\ actions'[Len(actions')].success /\ ~actions'[Len(actions')].tx
            /\ revenue' = revenue /\ costs' = costs]_vars

\* the rules have run with the native balance exactly at the threshold and
\* produced no alert
C21_Witness ==
  \E b \in Bodies :
    /\ cyc[b].pc = "exec" /\ cyc[b].phase = "rules" /\ cyc[b].attempted = 0
    /\ eth = lowEthThreshold
    /\ alertsOf(cyc[b].queue) = <<>>


\* tbl2 is tbl with rows added at its end only
extends(tbl2, tbl) ==
  Len(tbl2) >= Len(tbl) /\ SubSeq(tbl2, 1, Len(tbl)) = tbl

\* tbl2 is tbl with exactly one row added at its end
oneMore(tbl2, tbl) == Len(tbl2) = Len(tbl) + 1 /\ extends(tbl2, tbl)

\* C22: the ledger is append-only.  Every step leaves the existing rows of
\* the actions, revenue and costs tables as they are, and each of logAction,
\* logRevenue and logCost adds exactly one row to the table it is given.
C22_AppendOnly ==
  [][/\ extends(actions', actions)
     /\ extends(revenue', revenue)
     /\ extends(costs', costs)
     /\ oneMore(logAction(actions', "warning", <<>>, 0, FALSE, TRUE, 0), actions')
     /\ oneMore(logRevenue(revenue', "treasury_slash", 1, TRUE, 0), revenue')
     /\ oneMore(logCost(costs', "gas", GAS_COST_ESTIMATE_USD, 0), costs')]_vars

\* the ledger holds rows in all three tables, two of them costs of one
\* category, and the state store has been rewritten
C22_Witness ==
  /\ Len(actions) >= 2 /\ Len(revenue) >= 1 /\ Len(costs) >= 2
  /\ costs[1].category = costs[2].category
  /\ getState("last_aave_position") # NoValue


computeRows(tbl) == SelectSeq(tbl, LAMBDA r : r.category = "compute")

\* the bodies whose cycle completes in this step
completing == {b \in Bodies : cyc[b].pc = "done" /\ cyc'[b].pc = "idle"}

\* C24: exactly one compute CostEvent per completed cycle.  Every step adds
\* as many compute rows as cycles complete in it, each of the fixed amount, so
\* after n completed cycles the costs table holds n of them whatever the
\* Decisions of those cycles did.
C24_OneComputePerCycle ==
  [][/\ Len(computeRows(costs')) = Len(computeRows(costs)) + Cardinality(completing)
     /\ \A i \in 1 .. Len(costs') :
          costs'[i].category = "compute" => costs'[i].amount_usdc = COMPUTE_COST_USD]_vars

\* two cycles have completed, one of them with a failed Decision and one
\* without any Decision executed, and two compute rows are booked
C24_Witness ==
  /\ cyclesStarted = 2 /\ \A b \in Bodies : cyc[b].pc = "idle"
  /\ Len(computeRows(costs)) = 2
  /\ \E i \in 1 .. Len(actions) : ~actions[i].success
  /\ Len(SelectSeq(actions, LAMBDA a : a.type # "aave_yield")) = 1


fromSnapshot(b) ==
  \E rf \in ReadFailures :
    cyc'[b].queue = pushOrder(rule1(liquid),
                              rule2(IF rf.scan THEN <<>> ELSE StakerOrder, rf.stakers, now),
                              rule3(eth))

\* the gathering read of the body rejects in this step
gatherFailed(b) == cyc[b].pc \in {"decide", "llm"} /\ cyc'[b].pc = "idle"

submissionFails(b) ==
  /\ cyc[b].pc \in {"approve", "submit"}
  /\ Len(actions') = Len(actions) + 1
  /\ ~actions'[Len(actions')].success

\* C26: a failed submission is never fatal and never leaks the raw node error.
\* The rejection leaves exactly one ActionRecord, of the Decision's type, with
\* success false and no transaction, whose description is 'FAILED: ' followed
\* by at most 120 characters taken from the error value; nothing else is
\* written and the loop moves on to the next Decision.
C26_SanitizedFailure ==
  [][\A b \in Bodies :
       submissionFails(b) =>
         LET row == actions'[Len(actions')]
             reason == SubSeq(row.description, Len(FAILED_PREFIX) + 1,
                              Len(row.description))
         IN /\ oneMore(actions', actions)
            /\ row.type = Head(cyc[b].queue).action /\ ~row.tx /\ row.amount_usdc = 0
            /\ Len(row.description) >= Len(FAILED_PREFIX)
            /\ SubSeq(row.description, 1, Len(FAILED_PREFIX)) = FAILED_PREFIX
            /\ Len(reason) <= 120
            /\ \/ partOf(reason, nodeError.shortMessage)
               \/ partOf(reason, nodeError.message)
               \/ partOf(reason, nodeError.string)
            /\ revenue' = revenue /\ costs' = costs
            /\ cyc'[b].pc = "exec" /\ cyc'[b].queue = Tail(cyc[b].queue)]_vars

\* a rejection whose error value has no short summary and a Details line of
\* more than 120 characters has been recorded with a reason of 120 characters
C26_Witness ==
  /\ nodeError.shortMessage = <<>>
  /\ Len(matchDetails(nodeError.message)) > 120
  /\ \E i \in 1 .. Len(actions) :
       /\ ~actions[i].success
       /\ Len(actions[i].description) = Len(FAILED_PREFIX) + 120


\* "0x" followed by 40 hexadecimal digits
wellFormed(wallet) ==
  /\ Len(wallet) = 42
  /\ SubSeq(wallet, 1, 2) = <<"0", "x">>
  /\ \A i \in 3 .. Len(wallet) : wallet[i] \in HexDigits

\* C27: a request to the attestation endpoint with a malformed wallet address
\* is answered with HTTP 400 and causes no ledger write and no chain read,
\* with or without a payment-receipt header.
C27_MalformedWallet ==
  [][(res'.sent /\ ~wellFormed(res'.wallet)) =>
       /\ res'.status = 400 /\ res'.reads = 0
       /\ res'.attestation = NoAttestation
       /\ actions' = actions /\ revenue' = revenue /\ costs' = costs /\ kv' = kv]_vars

\* the request for "0xZZZ" that carried a payment receipt is being answered
\* with 400, after an earlier paid request was booked
C27_Witness ==
  /\ res.sent /\ res.wallet = <<"0", "x", "Z", "Z", "Z">> /\ res.receipt
  /\ res.status = 400
  /\ Len(x402Rows) = 1


\* C28: a payment receipt produces exactly one revenue append.  A request for
\* a well-formed wallet that carries the payment-receipt header appends one
\* revenue row of 0.01 tagged x402_attestation and nothing else to the revenue
\* table; a request without the header leaves the table as it is.
C28_OneAppendPerReceipt ==
  [][(res'.sent /\ wellFormed(res'.wallet)) =>
       IF res'.receipt
       THEN revenue' = logRevenue(revenue, "x402_attestation", X402_PRICE_USD, FALSE, 0)
       ELSE revenue' = revenue]_vars


\* round(successRate * 100 * (0.5 + 0.5 * min(totalDays / 30, 1))) for the
\* success rate num / den
documentedScore(num, den, totalDays) ==
  (2 * num * 100 * (30 + (IF totalDays < 30 THEN totalDays ELSE 30)) + den * 60)
    \div (2 * den * 60)

\* an attestation is being returned
answered == res.sent /\ res.status = 200

\* the attestations the endpoint returns for u1 over the stake histories and
\* the logs of resolved stakes
answersForU1 ==
  {attest(SelectSeq(h, LAMBDA st : st.amount > 0), l, addressOf("u1")) :
     h \in StakeHistories, l \in ResolvedLogs}

\* C29: the discipline score returned is an integer in [0,100] for every
\* stake history, is 0 when totalDays = 0, and for fixed totalDays it is
\* monotonically non-decreasing in successRate: no attestation the endpoint
\* returns for the same totalDays and a success rate at least as high has a
\* lower score.
C29_ScoreBoundedMonotone ==
  answered =>
    LET a == res.attestation IN
    /\ a.disciplineScore \in 0 .. 100
    /\ a.totalDays = 0 => a.disciplineScore = 0
    /\ \A a2 \in answersForU1 :
         (a2.totalDays = a.totalDays /\ a2.rateNum * a.rateDen >= a.rateNum * a2.rateDen)
           => a2.disciplineScore >= a.disciplineScore

\* C30: every attestation returned, from the on-chain records or from the
\* resolved-stake log, reports disciplineScore =
\* round(successRate * 100 * (0.5 + 0.5 * min(totalDays / 30, 1))) for the
\* successRate and totalDays it aggregated.
C30_DocumentedScore ==
  answered =>
    res.attestation.disciplineScore =
      documentedScore(res.attestation.rateNum, res.attestation.rateDen,
                      res.attestation.totalDays)

\* the routes of the dashboard
MetricsRoutes ==
  {"/health", "/api/status", "/api/balances", "/api/revenue", "/api/costs",
   "/api/actions"}

\* a step that answers a request to a status or metrics route
metricsAnswered == pnl'.sent \/ reply'.sent

\* C31 -- Status and metrics endpoints are pure reads: a step that answers a
\* request to /health, /api/status, /api/balances, /api/revenue, /api/costs,
\* /api/pnl or /api/actions leaves the tables actions, revenue and costs and
\* every RunState key as they were; a step that answers a request to the
\* attestation endpoint leaves actions, costs and the keys as they were and
\* either leaves revenue as it was or appends one x402_attestation row.
C31_PureReads ==
  [][/\ reply'.sent => reply'.route \in MetricsRoutes
     /\ metricsAnswered => UNCHANGED ledgerVars
     /\ res'.sent =>
          /\ UNCHANGED <<actions, costs, kv>>
          /\ \/ revenue' = revenue
             \/ revenue' = Append(revenue, [source |-> "x402_attestation",
                                            amount_usdc |-> X402_PRICE_USD,
                                            tx |-> FALSE, eid |-> 0])]_vars

\* C31 witness: the action log is being served while all three tables hold
\* rows and the position cursor has been written.
C31_Witness ==
  /\ reply.sent
  /\ reply.route = "/api/actions"
  /\ reply.body.actions # <<>>
  /\ actions # <<>> /\ revenue # <<>> /\ costs # <<>>
  /\ kv.last_aave_position # NoValue
\* C40 -- The recent-actions endpoint returns a bounded page: whatever the
\* limit query parameter holds, the response has at most DEFAULT_LIMIT
\* ActionRecords, and they are the most recently appended ones, newest first.
C40_BoundedPage ==
  (reply.sent /\ reply.route = "/api/actions") =>
    LET page == reply.body.actions
    IN /\ Len(page) <= DEFAULT_LIMIT
       /\ Len(page) <= Len(actions)
       /\ \A i \in 1 .. Len(page) : page[i] = actions[Len(actions) - i + 1]
\* the rows a step adds at the end of a table
added(tbl2, tbl) == SubSeq(tbl2, Len(tbl) + 1, Len(tbl2))

\* the step answers a paid query and books it
booking == res'.sent /\ res'.status = 200 /\ res'.receipt

\* C32 -- Concurrent appends do not corrupt aggregates.  With the loop and the
\* paid-query handler writing in any interleaving, every step keeps the rows
\* the revenue and costs tables hold and adds rows at their end only; a query
\* that is booked adds exactly one x402_attestation row and nothing else, a
\* request that is not booked adds nothing, a step of the loop adds no
\* x402_attestation row; and after the step totalRevenue() and totalCosts()
\* are the totals before it plus the amounts of the rows the step added.
C32_AppendsSerialized ==
  [][/\ extends(revenue', revenue)
     /\ extends(costs', costs)
     /\ getTotalRevenue' = getTotalRevenue + SumAmounts(added(revenue', revenue))
     /\ getTotalCosts' = getTotalCosts + SumAmounts(added(costs', costs))
     /\ booking =>
          /\ added(revenue', revenue) = <<[source |-> "x402_attestation",
                                          amount_usdc |-> X402_PRICE_USD,
                                          tx |-> FALSE, eid |-> 0]>>
          /\ added(costs', costs) = <<>>
     /\ (res'.sent /\ ~booking) =>
          added(revenue', revenue) = <<>> /\ added(costs', costs) = <<>>
     /\ ~res'.sent =>
          \A i \in 1 .. Len(added(revenue', revenue)) :
            added(revenue', revenue)[i].source # "x402_attestation"]_vars

\* C32 witness: two paid queries were booked with a row of the loop between
\* them, while a cycle body is under way and the loop has booked costs.
C32_Witness ==
  /\ \E i, j, k \in 1 .. Len(revenue) :
       /\ i < j /\ j < k
       /\ revenue[i].source = "x402_attestation"
       /\ revenue[j].source = "treasury_slash"
       /\ revenue[k].source = "x402_attestation"
  /\ costs # <<>>
  /\ \E b \in Bodies : cyc[b].pc # "idle"
\* the elements of a list
asSet(list) == {list[i] : i \in 1 .. Len(list)}

\* C33 -- Candidate stakers are the union of event addresses and the
\* allow-list: whenever Rule 2 has run, with the event query answered or
\* failed, the stakers it visited are every address of the allow-list and
\* every address of a staking event of the block window, each once.
C33_CandidateUnion ==
  scan.done =>
    /\ asSet(scan.visited) = asSet(StakerOrder) \cup asSet(scan.events)
    /\ \A i, j \in 1 .. Len(scan.visited) :
         scan.visited[i] = scan.visited[j] => i = j
\* the places of the treasury_slash rows in the revenue table
slashPlaces == {i \in 1 .. Len(revenue) : revenue[i].source = "treasury_slash"}

\* the stake a treasury_slash row was booked for: the text of the resolve
\* ActionRecord written by the same execution, which names staker and stake id
slashedStake(i) ==
  LET k == CHOOSE k \in 1 .. Len(actions) :
             actions[k].eid = revenue[i].eid /\ actions[k].type = "resolve_expired"
  IN actions[k].description

\* C34 -- At most one treasury_slash RevenueEvent is appended per (staker,
\* stake id), over any sequence of cycles: no two treasury_slash rows were
\* booked for the same stake, also when a later cycle read the stake before its
\* resolution settled and when an acknowledged resolution reverted.
C34_OneSlashPerStake ==
  \A i, j \in slashPlaces : slashedStake(i) = slashedStake(j) => i = j
\* C35 -- The agent's view of its liquid balance stays consistent across the
\* Decisions of one cycle: the amounts of the deposits a cycle has executed,
\* the deposit of Rule 1 and an advisory deposit, never sum to more than the
\* liquid balance the cycle started with.
C35_LiquidView == \A b \in Bodies : cyc[b].unspent >= 0
\* the stakes the resolve Decisions of a list name
resolvesOf(queue) ==
  {<<queue[i].user, queue[i].stakeId>> :
     i \in {k \in 1 .. Len(queue) : queue[k].action = "resolve_expired"}}

\* the resolvable stakes of the stakers in a set
resolvableOf(users) ==
  UNION {{<<u, stakes[u][i].stakeId>> :
            i \in {k \in 1 .. Len(stakes[u]) : isResolvable(stakes[u][k], now)}} :
         u \in users}

\* C36 -- A chain read failure for one candidate staker is isolated: when
\* Rule 2 ran with the read of one staker's stakes failing, the Decisions of
\* the cycle hold a resolve Decision for every resolvable stake of every other
\* staker visited and for no other stake, and the Decisions other than the
\* resolutions are those of the deposit rule and of the low-gas rule, which
\* are evaluated as if no read had failed.
C36_ReadFailureIsolated ==
  [][\A b \in Bodies :
       (ruleStep(b) /\ scan'.done /\ scan'.failing # {}) =>
         LET queue == cyc'[b].queue
         IN /\ resolvesOf(queue) = resolvableOf(asSet(scan'.visited) \ scan'.failing)
            /\ SelectSeq(queue, LAMBDA d : d.action # "resolve_expired")
                 = rule1(liquid) \o rule3(eth)]_vars

\* C36 witness: Rule 2 has just run with the read of u1's stakes failing while
\* u1 has a resolvable stake; the queue holds the resolution of u2's stake, a
\* deposit and a low-gas alert.
C36_Witness ==
  /\ scan.done /\ scan.failing = {"u1"}
  /\ resolvableOf({"u1"}) # {}
  /\ \E b \in Bodies :
       /\ cyc[b].pc = "exec"
       /\ resolvesOf(cyc[b].queue) = {<<"u2", 1>>}
       /\ \E i \in 1 .. Len(cyc[b].queue) : cyc[b].queue[i].action = "aave_supply"
       /\ \E i \in 1 .. Len(cyc[b].queue) : cyc[b].queue[i].action = "low_eth_warning"
\* the most recent provider call threw
lastCallThrew ==
  providerLog # <<>> /\ ~providerLog[Len(providerLog)].completed

\* C37 -- The last-model-call timestamp and the model-inference cost move
\* together.  A step writes the timestamp exactly when it appends one
\* model-inference CostEvent, so the timestamp is set iff such a cost is
\* booked and the number of its writes is the number of those costs; a
\* provider call that throws writes neither; and while the most recent call is
\* one that threw, the gate is open for a body that reaches the advisory
\* module, and an invocation that returns to the loop has called the provider
\* again.
C37_StampWithCost ==
  /\ []((kv.last_llm_call = NoValue) <=> (llmCostRows = {}))
  /\ [](\A b \in Bodies :
          (cyc[b].pc = "llm" /\ openaiApiKey /\ lastCallThrew) =>
            ~llmTooSoon(now, getState("last_llm_call")))
  /\ [][/\ Cardinality(llmCostRows') =
            Cardinality(llmCostRows)
              + (IF kv'.last_llm_call # kv.last_llm_call THEN 1 ELSE 0)
        /\ (Len(providerLog') > Len(providerLog) /\ lastCallThrew') =>
             costs' = costs /\ kv' = kv
        /\ \A b \in Bodies :
             (cyc[b].pc = "llm" /\ cyc'[b].pc = "exec" /\ openaiApiKey
              /\ lastCallThrew) =>
               Len(providerLog') = Len(providerLog) + 1]_vars

\* C37 witness: the call of one cycle threw and wrote nothing; the next
\* cycle called the provider again, and that call booked its cost and wrote
\* the timestamp.
C37_Witness ==
  /\ Len(providerLog) = 2
  /\ ~providerLog[1].completed /\ providerLog[2].completed
  /\ Cardinality(llmCostRows) = 1
  /\ kv.last_llm_call = providerLog[2].at
\* --------------------------------------------------------------------------
\* C38: a deposit's supply is never submitted while the pool's allowance is
\* below the deposit amount. A body that is about to submit a supply, and every
\* supply that is submitted, finds the allowance at or above the amount; a body
\* goes to send an approval only after reading an allowance below the amount,
\* sends the supply only once that approval is mined, and a body that read a
\* sufficient allowance goes straight to the supply: an approval enters the
\* queue only from a body that read an insufficient allowance.
supplyAhead(b) ==
  /\ cyc[b].pc \in {"approve", "approving", "submit"}
  /\ cyc[b].queue # <<>>
  /\ kindOf(Head(cyc[b].queue)) = "supply"

submitted(kind) ==
  /\ Len(pending') = Len(pending) + 1
  /\ pending'[Len(pending')].kind = kind

ownResolvedRows(tbl, wallet) ==
  SelectSeq(tbl, LAMBDA a : /\ a.type = "resolve_expired" /\ a.success
                                /\ partOf(wallet, a.description))

C39_OwnHistoryOnly ==
  (res.sent /\ res.status = 200 /\ getAllStakes(res.wallet) = <<>>) =>
    res.attestation = attest(<<>>, ownResolvedRows(actions, res.wallet), res.wallet)

====
